---- MODULE Spec2Model ----
(***************************************************************************)
(* Model of the doctor_cleaner batch tool (doctor_cleaner/cli.py,          *)
(* doctor_cleaner/config.py): the text normalizer, the specialty           *)
(* normalizer, the golden reference repository (load, auto-discovery,      *)
(* learn-from-review), the matcher, the clustering of unmatched persons    *)
(* and the process run over a small file system.                           *)
(*                                                                         *)
(* Strings are sequences of one-character strings, so that the regular     *)
(* expressions, str.lower(), str.title() and the character-level           *)
(* similarity ratio of the source are computed, not assumed.               *)
(***************************************************************************)
EXTENDS Integers, Sequences, FiniteSets, TLC

(***************************************************************************)
(* Characters and basic string functions                                   *)
(***************************************************************************)
UpperLetters ==
  <<"A","B","C","D","E","F","G","H","I","J","K","L","M",
    "N","O","P","Q","R","S","T","U","V","W","X","Y","Z">>

LowerLetters ==
  <<"a","b","c","d","e","f","g","h","i","j","k","l","m",
    "n","o","p","q","r","s","t","u","v","w","x","y","z">>

DigitChars == {"0","1","2","3","4","5","6","7","8","9"}

IsUpper(c) == \E i \in DOMAIN UpperLetters : UpperLetters[i] = c

IsLower(c) == \E i \in DOMAIN LowerLetters : LowerLetters[i] = c

IsAlpha(c) == IsUpper(c) \/ IsLower(c)

\* \w of the re module: letters, digits and the underscore
IsWordChar(c) == IsAlpha(c) \/ c \in DigitChars \/ c = "_"

\* \s of the re module (the model's strings hold no other white space)
IsSpace(c) == c = " "

LowerChar(c) ==
  IF IsUpper(c)
  THEN LowerLetters[CHOOSE i \in DOMAIN UpperLetters : UpperLetters[i] = c]
  ELSE c

UpperChar(c) ==
  IF IsLower(c)
  THEN UpperLetters[CHOOSE i \in DOMAIN LowerLetters : LowerLetters[i] = c]
  ELSE c

\* str.lower()
Lower(str) == [i \in 1..Len(str) |-> LowerChar(str[i])]

\* str.title(): a letter is upper-cased when no letter precedes it, else lowered
Title(str) ==
  [i \in 1..Len(str) |->
     IF i = 1 \/ ~IsAlpha(str[i-1]) THEN UpperChar(str[i]) ELSE LowerChar(str[i])]

RECURSIVE LStrip(_)
LStrip(str) ==
  IF str # <<>> /\ IsSpace(Head(str)) THEN LStrip(Tail(str)) ELSE str

RECURSIVE RStrip(_)
RStrip(str) ==
  IF str # <<>> /\ IsSpace(str[Len(str)])
  THEN RStrip(SubSeq(str, 1, Len(str) - 1))
  ELSE str

\* str.strip()
Strip(str) == LStrip(RStrip(str))

\* the missing value (NaN / None) of a pandas cell
NaN == <<"<NA>">>

\* pd.isna
IsNa(x) == x = NaN

\* s(x): safe string conversion
s(x) == IF IsNa(x) THEN <<>> ELSE x

\* str.split() / re.split on a set of separator characters: the maximal runs of
\* other characters
RECURSIVE SplitRuns(_, _, _, _)
SplitRuns(str, seps, cur, out) ==
  IF str = <<>>
  THEN IF cur = <<>> THEN out ELSE Append(out, cur)
  ELSE IF Head(str) \in seps
       THEN SplitRuns(Tail(str), seps, <<>>, IF cur = <<>> THEN out ELSE Append(out, cur))
       ELSE SplitRuns(Tail(str), seps, Append(cur, Head(str)), out)

\* " ".join(tokens)
RECURSIVE JoinSp(_)
JoinSp(tokens) ==
  IF tokens = <<>> THEN <<>>
  ELSE IF Len(tokens) = 1 THEN tokens[1]
  ELSE tokens[1] \o <<" ">> \o JoinSp(Tail(tokens))

\* \b of the re module at the gap before position i of str
WordBoundary(str, i) ==
  LET before == i > 1 /\ i - 1 <= Len(str) /\ IsWordChar(str[i-1])
      after  == i >= 1 /\ i <= Len(str) /\ IsWordChar(str[i])
  IN before # after

\* str[i : i+len(lit)] == lit
MatchesAt(str, i, lit) ==
  /\ i + Len(lit) - 1 <= Len(str)
  /\ \A k \in 1..Len(lit) : str[i + k - 1] = lit[k]

\* \b(lit)\b matches str at position i
WordMatchAt(str, i, lit) ==
  /\ WordBoundary(str, i)
  /\ MatchesAt(str, i, lit)
  /\ WordBoundary(str, i + Len(lit))

(***************************************************************************)
(* Constants of doctor_cleaner/cli.py                                      *)
(***************************************************************************)
BRANCH_CODES ==
  {
    <<"a","f","w">>, <<"a","h","j">>, <<"a","k","w">>, <<"a","l","w">>, <<"f","w","z">>,
    <<"s","n","b">>, <<"t","r","a","d">>, <<"t","r","d">>
  }

SERVICE_WORDS ==
  {
    <<"c","a","r","d","i","o">>, <<"c","a","r","d","i","o","l","o","g","y">>,
    <<"c","a","r","e">>, <<"c","e","n","t","e","r">>, <<"c","e","n","t","r","e">>,
    <<"c","l","i","n","i","c">>, <<"d","e","n","t","a","l">>,
    <<"d","e","p","a","r","t","m","e","n","t">>, <<"d","e","p","t">>, <<"d","e","r","m","a">>,
    <<"d","e","r","m","a","t","o","l","o","g","y">>,
    <<"e","n","d","o","s","c","o","p","i","c">>, <<"e","n","d","o","s","c","o","p","y">>,
    <<"e","n","t">>, <<"e","r">>, <<"f","w","z">>, <<"g","a","s","t","r","o">>,
    <<"g","y","n">>, <<"g","y","n","e">>, <<"h","e","p","a","t","o","l","o","g","y">>,
    <<"h","o","m","e">>, <<"h","o","m","e","c","a","r","e">>,
    <<"h","o","s","p","i","t","a","l">>, <<"i","c","u">>, <<"i","m","a","g","i","n","g">>,
    <<"i","p","d">>, <<"l","a","b">>, <<"l","a","b","o","r","a","t","o","r","y">>,
    <<"l","a","b","s">>, <<"n","u","t","r","i","t","i","o","n">>, <<"o","b","g","y","n">>,
    <<"o","p","d">>, <<"o","p","h","t","h","a","l","m","o","l","o","g","y">>,
    <<"o","r","t","h","o","p","a","e","d","i","c">>,
    <<"o","r","t","h","o","p","e","d","i","c">>, <<"o","t">>,
    <<"p","a","e","d","i","a","t","r","i","c","s">>,
    <<"p","e","d","i","a","t","r","i","c","s">>, <<"p","h","y","s","i","o">>,
    <<"p","o","l","y","c","l","i","n","i","c">>, <<"r","a","d","i","o","l","o","g","y">>,
    <<"s","c","r","e","e","n","i","n","g">>, <<"s","n","b">>, <<"t","h","e","a","t","r","e">>,
    <<"t","h","e","r","a","p","y">>, <<"t","r","a","d">>, <<"t","r","d">>, <<"u","n","i","t">>,
    <<"u","r","o","l","o","g","y">>, <<"w","a","r","d">>, <<"x","-","r","a","y">>,
    <<"x","r","a","y">>
  }

TITLE_WORDS ==
  {
    <<"b","s","c">>, <<"c","o","n","s","u","l","t","a","n","t">>, <<"d","o","c","t","o","r">>,
    <<"d","r">>, <<"m","d">>, <<"m","i","s","s">>, <<"m","r">>, <<"m","r","s">>, <<"m","s">>,
    <<"m","s","c">>, <<"p","h","d">>, <<"p","r","o","f">>,
    <<"s","p","e","c","i","a","l","i","s","t">>
  }

DEGREE_TOKENS ==
  {
    <<"b","s","c">>, <<"d","c","h">>, <<"d","d","s">>, <<"d","m","d">>, <<"d","o">>,
    <<"f","a","c","c">>, <<"f","a","c","s">>, <<"f","c","p","s">>, <<"f","r","c","s">>,
    <<"m","b","a">>, <<"m","b","b","s">>, <<"m","d">>, <<"m","r","c","g","p">>,
    <<"m","r","c","p">>, <<"m","s","c">>, <<"p","h","d">>
  }

TOKEN_MAP ==
  <<
    <<<<"m","o","h","a","m","m","e","d">>, <<"m","o","h","a","m","e","d">>>>,
    <<<<"m","u","h","a","m","m","a","d">>, <<"m","o","h","a","m","e","d">>>>,
    <<<<"m","o","h","a","m","a","d">>, <<"m","o","h","a","m","e","d">>>>,
    <<<<"m","u","h","a","m","a","d">>, <<"m","o","h","a","m","e","d">>>>,
    <<<<"a","h","m","a","d">>, <<"a","h","m","e","d">>>>,
    <<<<"y","o","u","s","s","e","f">>, <<"y","o","u","s","e","f">>>>,
    <<<<"y","u","s","u","f">>, <<"y","o","u","s","e","f">>>>,
    <<<<"y","o","u","s","i","f">>, <<"y","o","u","s","e","f">>>>,
    <<<<"h","u","s","s","a","i","n">>, <<"h","u","s","s","e","i","n">>>>,
    <<<<"k","h","a","l","i","d">>, <<"k","h","a","l","e","d">>>>,
    <<<<"t","a","r","i","q">>, <<"t","a","r","e","k">>>>,
    <<<<"t","a","r","e","q">>, <<"t","a","r","e","k">>>>, <<<<"a","l">>, <<"e","l">>>>,
    <<<<"a","l","-">>, <<"e","l">>>>, <<<<"e","l","-">>, <<"e","l">>>>
  >>

REPLACEMENTS ==
  <<
    <<<<"a","b","d","e","l","f","a","t","a","h">>, <<<<"a","b","d"," ","e","l"," ","f","a","t","t","a","h">>, <<"a","b","d"," ","e","l"," ","f","a","t","a","h">>, <<"a","b","d","e","l"," ","f","a","t","t","a","h">>, <<"a","b","d","e","l"," ","f","a","t","a","h">>, <<"a","b","d","e","l","f","a","t","t","a","h">>, <<"a","b","d","u","l"," ","f","a","t","a","h">>>>>>,
    <<<<"a","b","d","e","l","r","a","z","e","k">>, <<<<"a","b","d"," ","e","l"," ","r","a","z","e","k">>, <<"a","b","d"," ","e","l"," ","r","a","z","i","k">>, <<"a","b","d","e","l"," ","r","a","z","e","k">>, <<"a","b","d","e","l"," ","r","a","z","i","k">>, <<"a","b","d","e","l","r","a","z","i","k">>, <<"a","b","d","u","l"," ","r","a","z","e","k">>>>>>,
    <<<<"a","b","d","e","l","r","a","h","m","a","n">>, <<<<"a","b","d"," ","e","l"," ","r","a","h","m","a","n">>, <<"a","b","d","e","l"," ","r","a","h","m","a","n">>, <<"a","b","d"," ","e","l"," ","r","h","m","a","n">>, <<"a","b","d","e","l"," ","r","h","m","a","n">>, <<"a","b","d","u","l","r","a","h","m","a","n">>, <<"a","b","d","u","r","r","a","h","m","a","n">>>>>>,
    <<<<"a","b","d","a","l","l","a","h">>, <<<<"a","b","d"," ","a","l","l","a","h">>, <<"a","b","d","e","l","l","a","h">>, <<"a","b","d"," ","e","l","l","a","h">>, <<"a","b","d","u","l","l","a","h">>, <<"a","b","d","u","l","a","h">>, <<"a","b","d","u","l","l","a">>>>>>,
    <<<<"m","o","h","a","m","e","d">>, <<<<"m","o","h","a","m","m","e","d">>, <<"m","o","h","a","m","a","d">>, <<"m","u","h","a","m","e","d">>, <<"m","o","h","a","m","m","o","d">>, <<"m","o","h","a","m","m","a","d">>, <<"m","u","h","a","m","a","d">>, <<"m","u","h","a","m","m","e","d">>>>>>,
    <<<<"a","h","m","e","d">>, <<<<"a","h","m","a","d">>, <<"a","h","m","e","t">>, <<"a","h","m","m","e","d">>, <<"a","h","m","d">>, <<"a","h","m","i","d">>, <<"a","h","m","a","d","e">>>>>>,
    <<<<"m","o","s","t","a","f","a">>, <<<<"m","u","s","t","a","f","a">>, <<"m","o","u","s","t","a","f","a">>, <<"m","u","s","t","p","h","a">>, <<"m","o","s","t","p","h","a">>, <<"m","u","s","t","a","p","h","a">>, <<"m","s","t","a","f","a">>>>>>,
    <<<<"f","a","t","m","a">>, <<<<"f","a","t","i","m","a">>, <<"f","a","t","i","m","a","h">>, <<"f","a","t","m","a","h">>, <<"f","a","t","m","e","h">>, <<"f","a","t","e","m","a","h">>, <<"f","a","t","e","m","a">>, <<"f","a","t","i","m","e","h">>>>>>,
    <<<<"y","o","u","s","e","f">>, <<<<"y","o","u","s","s","e","f">>, <<"y","o","u","s","i","f">>, <<"y","u","s","e","f">>, <<"y","u","s","i","f">>, <<"y","o","u","s","s","i","f">>, <<"y","o","s","e","f">>, <<"u","s","i","f">>>>>>,
    <<<<"s","h","e","r","i","f">>, <<<<"s","h","a","r","e","e","f">>, <<"s","h","e","r","e","e","f">>, <<"s","h","a","r","i","f">>, <<"s","h","a","r","e","i","f">>, <<"s","h","e","r","e","f">>, <<"s","h","a","r","e","f">>>>>>,
    <<<<"f","a","t","h","y">>, <<<<"f","a","t","h","i">>, <<"f","a","t","h","i","i">>, <<"f","a","t","h","i","e">>, <<"f","a","t","t","h","y">>, <<"f","a","t","h","e","y">>>>>>,
    <<<<"a","l","i">>, <<<<"a","l","y">>, <<"a","l","e","e">>, <<"a","l","i","i">>, <<"a","a","l","e","e">>, <<"a","a","l","y">>>>>>
  >>

(***************************************************************************)
(* Text Normalizer                                                         *)
(***************************************************************************)
\* Pattern.sub over \b(lit1|lit2|...)\b<opt>? : alts is the alternation in the
\* order of the pattern, as pairs <<literal, replacement>>; opt is the set of
\* characters of which one may follow the match and is then consumed with it
RECURSIVE SubWords(_, _, _, _, _)
SubWords(str, i, alts, opt, out) ==
  IF i > Len(str) THEN out
  ELSE LET hits == IF WordBoundary(str, i)
                   THEN {k \in DOMAIN alts : WordMatchAt(str, i, alts[k][1])}
                   ELSE {}
       IN IF hits = {}
          THEN SubWords(str, i + 1, alts, opt, Append(out, str[i]))
          ELSE LET k == CHOOSE x \in hits : \A y \in hits : x <= y
                   e == i + Len(alts[k][1])
                   n == IF e <= Len(str) /\ str[e] \in opt THEN e + 1 ELSE e
               IN SubWords(str, n, alts, opt, out \o alts[k][2])

\* a set of literals as an alternation that replaces each by one space
RECURSIVE AsBlankAlts(_)
AsBlankAlts(lits) ==
  IF lits = {} THEN <<>>
  ELSE LET l == CHOOSE x \in lits : TRUE
       IN <<<<l, <<" ">>>>>> \o AsBlankAlts(lits \ {l})

\* Pattern.sub of one character class by a replacement
SubChars(str, InClass(_), rep) ==
  [i \in 1..Len(str) |-> IF InClass(str[i]) THEN rep ELSE str[i]]

\* MULTISPACE.sub(" ", str): each run of white space becomes one space
RECURSIVE CollapseSpaces(_)
CollapseSpaces(str) ==
  IF str = <<>> THEN <<>>
  ELSE IF IsSpace(Head(str))
       THEN IF Len(str) > 1 /\ IsSpace(str[2])
            THEN CollapseSpaces(Tail(str))
            ELSE <<" ">> \o CollapseSpaces(Tail(str))
       ELSE <<Head(str)>> \o CollapseSpaces(Tail(str))

ClosingOf(c) == IF c = "{" THEN "}" ELSE IF c = "[" THEN "]" ELSE ")"

\* Pattern.sub(rep, str) of the bracketed groups opened by a character of opens,
\* each up to the first closing character that follows
RECURSIVE SubBracketed(_, _, _, _, _)
SubBracketed(str, i, opens, rep, out) ==
  IF i > Len(str) THEN out
  ELSE LET closes == {j \in (i+1)..Len(str) : str[j] = ClosingOf(str[i])}
       IN IF str[i] \in opens /\ closes # {}
          THEN SubBracketed(str, (CHOOSE j \in closes : \A k \in closes : j <= k) + 1,
                            opens, rep, out \o rep)
          ELSE SubBracketed(str, i + 1, opens, rep, Append(out, str[i]))

\* the opening characters of BRACKETED
BRACKETED == {"{", "[", "("}

\* first position >= i of str that holds no character of the set
RECURSIVE SkipWhile(_, _, _)
SkipWhile(str, i, class) ==
  IF i <= Len(str) /\ str[i] \in class THEN SkipWhile(str, i + 1, class) ELSE i

WhiteSpace == {" "}

\* (?:\s*[\-\_])*\s* of ABD_PAT
AbdSeparators == {" ", "-", "_"}

\* ABD_PAT.sub("abdel", str)
RECURSIVE SubAbd(_, _, _)
SubAbd(str, i, out) ==
  IF i > Len(str) THEN out
  ELSE LET j == SkipWhile(str, i + 3, AbdSeparators)
           hit == /\ WordBoundary(str, i)
                  /\ MatchesAt(str, i, <<"a","b","d">>)
                  /\ (MatchesAt(str, j, <<"e","l">>) \/ MatchesAt(str, j, <<"a","l">>))
                  /\ WordBoundary(str, j + 2)
       IN IF hit
          THEN SubAbd(str, j + 2, out \o <<"a","b","d","e","l">>)
          ELSE SubAbd(str, i + 1, Append(out, str[i]))

\* re.sub(r"\ba\s+(?=[a-z])", "al ", str)
RECURSIVE SubLoneA(_, _, _)
SubLoneA(str, i, out) ==
  IF i > Len(str) THEN out
  ELSE LET j == SkipWhile(str, i + 1, WhiteSpace)
           hit == /\ WordBoundary(str, i)
                  /\ str[i] = "a"
                  /\ j > i + 1
                  /\ j <= Len(str)
                  /\ IsLower(str[j])
       IN IF hit
          THEN SubLoneA(str, j, out \o <<"a","l"," ">>)
          ELSE SubLoneA(str, i + 1, Append(out, str[i]))

BRANCH_CODES_REGEX == AsBlankAlts(BRANCH_CODES)

TITLE_REGEX == AsBlankAlts(TITLE_WORDS)

\* the <<wrong, correct>> pairs of REPLACEMENTS (REPL_MAP)
REPL_MAP ==
  UNION {{<<REPLACEMENTS[k][2][j], REPLACEMENTS[k][1]>> : j \in DOMAIN REPLACEMENTS[k][2]} :
           k \in DOMAIN REPLACEMENTS}

\* the alternation of REPL_PAT: the wrong spellings, longest first
RECURSIVE LongestFirst(_)
LongestFirst(pairs) ==
  IF pairs = {} THEN <<>>
  ELSE LET p == CHOOSE x \in pairs : \A y \in pairs : Len(x[1]) >= Len(y[1])
       IN <<p>> \o LongestFirst(pairs \ {p})

REPL_PAT == LongestFirst(REPL_MAP)

\* a normalizer that leaves the spellings as they are
keep_spellings(text) == text

apply_replacements(text) ==
  IF text = <<>> THEN <<>> ELSE SubWords(text, 1, REPL_PAT, {}, <<>>)

IsNonWord(c) == ~IsWordChar(c) /\ ~IsSpace(c) /\ c # "-"

IsUnderscoreOrDot(c) == c = "_" \/ c = "."

\* [\s\-]+
HYPHEN_SPLIT == {" ", "-"}

TokenMapGet(t) ==
  IF \E k \in DOMAIN TOKEN_MAP : TOKEN_MAP[k][1] = t
  THEN TOKEN_MAP[CHOOSE k \in DOMAIN TOKEN_MAP : TOKEN_MAP[k][1] = t][2]
  ELSE t

\* the token loop of normalize_tokens
RECURSIVE TokenLoop(_, _, _, _)
TokenLoop(tokens, i, is_person, out) ==
  IF i > Len(tokens) THEN out
  ELSE LET t == tokens[i]
       IN IF t = <<>> \/ t \in DEGREE_TOKENS
          THEN TokenLoop(tokens, i + 1, is_person, out)
          ELSE IF t \in {<<"a","l">>, <<"e","l">>} /\ i + 1 <= Len(tokens) /\ tokens[i+1] # <<>>
          THEN TokenLoop(tokens, i + 2, is_person, Append(out, <<"e","l">> \o tokens[i+1]))
          ELSE LET m == TokenMapGet(t)
               IN IF ~is_person /\ out # <<>> /\ out[Len(out)] = m
                  THEN TokenLoop(tokens, i + 1, is_person, out)
                  ELSE TokenLoop(tokens, i + 1, is_person, Append(out, m))

LongerThanOne(w) == Len(w) > 1

normalize_tokens(name, is_person) ==
  LET s0 == Strip(Lower(s(name)))
      s1 == SubBracketed(s0, 1, BRACKETED, <<" ">>, <<>>)
      s2 == SubWords(s1, 1, BRANCH_CODES_REGEX, {}, <<>>)
      s3 == SubWords(s2, 1, TITLE_REGEX, {"."}, <<>>)
      s4 == SubChars(s3, IsNonWord, " ")
      s5 == SubChars(s4, IsUnderscoreOrDot, " ")
      s6 == Strip(CollapseSpaces(s5))
      s7 == apply_replacements(s6)
      s8 == SubAbd(s7, 1, <<>>)
      s9 == SubLoneA(s8, 1, <<>>)
      tokens == SplitRuns(s9, HYPHEN_SPLIT, <<>>, <<>>)
  IN IF s0 = <<>> THEN <<>>
     ELSE SelectSeq(TokenLoop(tokens, 1, is_person, <<>>), LongerThanOne)

clean_name(name, is_person) == Title(JoinSp(normalize_tokens(name, is_person)))

(***************************************************************************)
(* Similarity (rapidfuzz.fuzz.ratio): 2*LCS/(len1+len2), kept as a         *)
(* fraction <<numerator, denominator>>                                     *)
(***************************************************************************)
Max2(a, b) == IF a >= b THEN a ELSE b

\* one row of the longest-common-subsequence table: row holds the entries of the
\* columns filled so far, prev the row of the character before c
RECURSIVE LcsRow(_, _, _, _)
LcsRow(c, t, prev, row) ==
  IF Len(row) >= Len(t) THEN row
  ELSE LET j == Len(row) + 1
           left == IF j = 1 THEN 0 ELSE row[j-1]
           diag == IF j = 1 THEN 0 ELSE prev[j-1]
           v == IF c = t[j] THEN diag + 1 ELSE Max2(left, prev[j])
       IN LcsRow(c, t, prev, Append(row, v))

RECURSIVE LcsRows(_, _, _, _)
LcsRows(a, t, i, prev) ==
  IF i > Len(a) \/ Len(prev) # Len(t) THEN prev
  ELSE LcsRows(a, t, i + 1, LcsRow(a[i], t, prev, <<>>))

\* length of the longest common subsequence of a and t
LcsLen(a, t) ==
  IF a = <<>> \/ t = <<>> THEN 0
  ELSE LcsRows(a, t, 1, [j \in 1..Len(t) |-> 0])[Len(t)]

\* fuzz.ratio(a, t) / 100.0 as a fraction; two empty strings are equal (1)
ratio(a, t) ==
  IF Len(a) + Len(t) = 0 THEN <<1, 1>> ELSE <<2 * LcsLen(a, t), Len(a) + Len(t)>>

FracGE(x, y) == x[1] * y[2] >= y[1] * x[2]

FracGT(x, y) == x[1] * y[2] > y[1] * x[2]

FracEQ(x, y) == x[1] * y[2] = y[1] * x[2]

FracMax(x, y) == IF FracGE(x, y) THEN x ELSE y

\* the titles of extract_person_name_smart
EXTRACT_TITLES ==
  {<<"d","r">>, <<"d","o","c","t","o","r">>, <<"p","r","o","f">>, <<"m","r">>,
   <<"m","r","s">>, <<"m","s">>, <<"m","i","s","s">>, <<"m","d">>, <<"p","h","d">>}

IsPunctuation(c) == ~IsWordChar(c) /\ ~IsSpace(c)

\* str.isdigit()
IsDigitString(w) == w # <<>> /\ \A i \in DOMAIN w : w[i] \in DigitChars

KeepExtractedWord(w) ==
  LET word_lower == Strip(Lower(w))
  IN /\ word_lower \notin EXTRACT_TITLES
     /\ word_lower \notin SERVICE_WORDS
     /\ word_lower \notin BRANCH_CODES
     /\ ~(Len(word_lower) < 2 \/ IsDigitString(word_lower))

TitleEach(words) == [i \in DOMAIN words |-> Title(words[i])]

extract_person_name_smart(raw_text) ==
  LET text == Strip(s(raw_text))
      t1 == SubBracketed(text, 1, {"("}, <<>>, <<>>)
      t2 == SubBracketed(t1, 1, {"["}, <<>>, <<>>)
      t3 == SubBracketed(t2, 1, {"{"}, <<>>, <<>>)
      t4 == SubChars(t3, IsPunctuation, " ")
      words == SplitRuns(t4, WhiteSpace, <<>>, <<>>)
      clean_words == TitleEach(SelectSeq(words, KeepExtractedWord))
  IN IF IsNa(raw_text) \/ text = <<>> THEN <<>>
     ELSE Strip(CollapseSpaces(JoinSp(clean_words)))

(***************************************************************************)
(* Entity Classifier                                                       *)
(***************************************************************************)
\* SERVICE_REGEX.search(n)
ServiceSearch(n) ==
  \E i \in 1..Len(n) : \E w \in SERVICE_WORDS : WordMatchAt(n, i, w)

FACILITY_SUFFIXES ==
  {<<"c","l","i","n","i","c">>, <<"c","e","n","t","r","e">>, <<"c","e","n","t","e","r">>,
   <<"d","e","p","a","r","t","m","e","n","t">>, <<"u","n","i","t">>,
   <<"p","o","l","y","c","l","i","n","i","c">>, <<"h","o","s","p","i","t","a","l">>,
   <<"w","a","r","d">>}

\* re.search(r"\b(clinic|...|ward)\b$", n)
SuffixSearch(n) ==
  \E w \in FACILITY_SUFFIXES :
    /\ Len(w) <= Len(n)
    /\ WordMatchAt(n, Len(n) - Len(w) + 1, w)

\* n.startswith(("dr ", "dr.", "doctor "))
DOCTOR_PREFIXES == {<<"d","r"," ">>, <<"d","r",".">>, <<"d","o","c","t","o","r"," ">>}

StartsWithDoctor(n) == \E p \in DOCTOR_PREFIXES : MatchesAt(n, 1, p)

\* len(re.findall(r"\w+", n)): the runs of word characters of n
WordRunCount(n) ==
  Cardinality({i \in 1..Len(n) : IsWordChar(n[i]) /\ (i = 1 \/ ~IsWordChar(n[i-1]))})

\* the condition of the third rule: a short name that starts with a doctor's
\* title and holds no service word
ShortDoctor(n) ==
  StartsWithDoctor(n) /\ WordRunCount(n) <= 3 /\ ~ServiceSearch(n)

\* the classifier with the third rule taken first and without its look for a
\* service word
is_facility_doctor_first(name) ==
  LET n == Strip(Lower(s(name)))
  IN IF n = <<>> THEN FALSE
     ELSE IF StartsWithDoctor(n) /\ WordRunCount(n) <= 3 THEN FALSE
     ELSE IF ServiceSearch(n) THEN TRUE
     ELSE IF SuffixSearch(n) THEN TRUE
     ELSE FALSE

is_facility(name) ==
  LET n == Strip(Lower(s(name)))
  IN IF n = <<>> THEN FALSE
     ELSE IF ServiceSearch(n) THEN TRUE
     ELSE IF SuffixSearch(n) THEN TRUE
     ELSE IF ShortDoctor(n) THEN FALSE
     ELSE FALSE
(***************************************************************************)
(* Specialty Normalization                                                 *)
(***************************************************************************)
SPECIALTY_STOPWORDS ==
  {
    <<"c","e","n","t","e","r">>, <<"c","e","n","t","r","e">>, <<"c","l","i","n","i","c">>,
    <<"d","e","p","a","r","t","m","e","n","t">>, <<"d","e","p","t">>,
    <<"d","i","v","i","s","i","o","n">>, <<"i","p","d">>, <<"o","f">>, <<"o","p","d">>,
    <<"p","o","l","y","c","l","i","n","i","c">>, <<"s","e","c","t","i","o","n">>,
    <<"s","e","r","v","i","c","e">>, <<"s","e","r","v","i","c","e","s">>,
    <<"u","n","i","t">>, <<"w","a","r","d">>
  }

\* the entries <<canon, syns>> of SPECIALTY_CANONICAL, in the order of the dict
SPECIALTY_CANONICAL ==
  <<
    <<<<"d","e","n","t","a","l">>,
      <<<<"d","e","n","t","i","s","t","r","y">>,
       <<"d","e","n","t","a","l"," ","s","e","r","v","i","c","e">>,
       <<"d","e","n","t","a","l"," ","c","l","i","n","i","c">>, <<"d","e","n","t">>,
       <<"o","r","a","l">>, <<"o","d","o","n","t","o","l","o","g","y">>>>>>,
    <<<<"d","e","r","m","a","t","o","l","o","g","y">>,
      <<<<"d","e","r","m","a">>, <<"s","k","i","n">>,
       <<"d","e","r","m","a","t","o","l","o","g","i","c">>,
       <<"d","e","r","m","a","t","o","l","o","g","y"," ","c","l","i","n","i","c">>>>>>,
    <<<<"e","n","t">>,
      <<<<"o","t","o","l","a","r","y","n","g","o","l","o","g","y">>,
       <<"e","a","r"," ","n","o","s","e"," ","t","h","r","o","a","t">>,
       <<"e","n","t"," ","c","l","i","n","i","c">>,
       <<"e","n","t"," ","d","e","p","a","r","t","m","e","n","t">>>>>>,
    <<<<"p","e","d","i","a","t","r","i","c","s">>,
      <<<<"p","a","e","d","i","a","t","r","i","c","s">>, <<"p","e","d","s">>,
       <<"c","h","i","l","d","r","e","n">>,
       <<"c","h","i","l","d"," ","h","e","a","l","t","h">>,
       <<"p","e","d","i","a","t","r","i","c","s"," ","c","l","i","n","i","c">>>>>>,
    <<<<"g","y","n","e","c","o","l","o","g","y"," ","&"," ","o","b","s","t","e","t","r","i","c","s">>,
      <<<<"g","y","n">>, <<"o","b","g","y","n">>, <<"o","b","/","g","y","n">>,
       <<"g","y","n","e">>, <<"o","b","s","t","e","t","r","i","c","s">>,
       <<"o","b","s","t","e","t","r","i","c">>, <<"o","b">>>>>>,
    <<<<"c","a","r","d","i","o","l","o","g","y">>,
      <<<<"c","a","r","d","i","o">>, <<"h","e","a","r","t">>, <<"c","a","r","d","i","a","c">>>>>>,
    <<<<"u","r","o","l","o","g","y">>,
      <<<<"u","r","o">>, <<"u","r","i","n","a","r","y">>>>>>,
    <<<<"r","a","d","i","o","l","o","g","y">>,
      <<<<"i","m","a","g","i","n","g">>, <<"x","r","a","y">>, <<"x","-","r","a","y">>,
       <<"r","a","d","i","o","l","o","g","y"," ","d","e","p","t">>,
       <<"d","i","a","g","n","o","s","t","i","c"," ","i","m","a","g","i","n","g">>>>>>,
    <<<<"g","a","s","t","r","o","e","n","t","e","r","o","l","o","g","y">>,
      <<<<"g","a","s","t","r","o">>, <<"g","i">>, <<"d","i","g","e","s","t","i","v","e">>>>>>,
    <<<<"h","e","p","a","t","o","l","o","g","y">>,
      <<<<"h","e","p","a">>, <<"l","i","v","e","r">>>>>>,
    <<<<"o","p","h","t","h","a","l","m","o","l","o","g","y">>,
      <<<<"o","p","h","t","h","a">>, <<"o","p","h","t","h","a","l","m","i","c">>,
       <<"e","y","e">>, <<"e","y","e"," ","c","l","i","n","i","c">>>>>>,
    <<<<"o","r","t","h","o","p","e","d","i","c","s">>,
      <<<<"o","r","t","h","o","p","e","d","i","c">>,
       <<"o","r","t","h","o","p","a","e","d","i","c">>, <<"o","r","t","h","o">>,
       <<"b","o","n","e","s">>,
       <<"o","r","t","h","o","p","e","d","i","c","s"," ","c","l","i","n","i","c">>>>>>,
    <<<<"n","u","t","r","i","t","i","o","n">>,
      <<<<"d","i","e","t">>, <<"d","i","e","t","a","r","y">>,
       <<"n","u","t","r","i","t","i","o","n"," ","c","l","i","n","i","c">>>>>>,
    <<<<"i","c","u">>,
      <<<<"i","n","t","e","n","s","i","v","e"," ","c","a","r","e">>,
       <<"c","r","i","t","i","c","a","l"," ","c","a","r","e">>>>>>,
    <<<<"e","r">>,
      <<<<"e","m","e","r","g","e","n","c","y">>, <<"a","&","e">>,
       <<"c","a","s","u","a","l","t","y">>, <<"e","d">>,
       <<"e","m","e","r","g","e","n","c","y"," ","d","e","p","a","r","t","m","e","n","t">>,
       <<"a","c","c","i","d","e","n","t"," ","&"," ","e","m","e","r","g","e","n","c","y">>>>>>,
    <<<<"e","n","d","o","s","c","o","p","y">>,
      <<<<"e","n","d","o","s","c","o","p","i","c">>,
       <<"e","n","d","o","s","c","o","p","y"," ","u","n","i","t">>>>>>,
    <<<<"l","a","b">>,
      <<<<"l","a","b","o","r","a","t","o","r","y">>, <<"l","a","b","s">>,
       <<"p","a","t","h","o","l","o","g","y">>,
       <<"l","a","b"," ","s","e","r","v","i","c","e","s">>>>>>,
    <<<<"n","e","u","r","o","l","o","g","y">>,
      <<<<"n","e","u","r","o">>, <<"n","e","r","v","o","u","s"," ","s","y","s","t","e","m">>>>>>,
    <<<<"o","n","c","o","l","o","g","y">>,
      <<<<"c","a","n","c","e","r">>, <<"o","n","c","o">>>>>>,
    <<<<"n","e","p","h","r","o","l","o","g","y">>,
      <<<<"r","e","n","a","l">>, <<"k","i","d","n","e","y">>>>>>,
    <<<<"e","n","d","o","c","r","i","n","o","l","o","g","y">>,
      <<<<"e","n","d","o">>, <<"h","o","r","m","o","n","e","s">>>>>>,
    <<<<"p","s","y","c","h","i","a","t","r","y">>,
      <<<<"p","s","y","c","h">>, <<"m","e","n","t","a","l"," ","h","e","a","l","t","h">>>>>>,
    <<<<"p","u","l","m","o","n","o","l","o","g","y">>,
      <<<<"r","e","s","p","i","r","a","t","o","r","y">>, <<"c","h","e","s","t">>,
       <<"p","u","l","m","o","n","a","r","y">>>>>>
  >>

SPEC_TOK_MAP ==
  <<
    <<<<"o","b","g","y","n">>, <<"o","b","g","y","n">>>>,
    <<<<"o","b">>, <<"o","b","s","t","e","t","r","i","c","s">>>>,
    <<<<"g","y","n">>, <<"g","y","n","e">>>>,
    <<<<"g","i">>, <<"g","a","s","t","r","o">>>>,
    <<<<"e","n","t">>, <<"e","n","t">>>>,
    <<<<"d","e","r","m","a">>, <<"d","e","r","m","a">>>>,
    <<<<"o","r","t","h","o">>, <<"o","r","t","h","o">>>>,
    <<<<"o","p","h","t","h","a">>, <<"o","p","h","t","h","a">>>>,
    <<<<"x","-","r","a","y">>, <<"x","r","a","y">>>>,
    <<<<"x","r","a","y">>, <<"x","r","a","y">>>>,
    <<<<"a","&","e">>, <<"e","r">>>>,
    <<<<"e","d">>, <<"e","r">>>>
  >>

\* [\s/,\-\_]+ of _clean_specialty_text
SPECIALTY_SPLIT == {" ", "/", ",", "-", "_"}

\* SPEC_TOK_MAP.get(t, t)
SpecTokMapGet(t) ==
  IF \E k \in DOMAIN SPEC_TOK_MAP : SPEC_TOK_MAP[k][1] = t
  THEN SPEC_TOK_MAP[CHOOSE k \in DOMAIN SPEC_TOK_MAP : SPEC_TOK_MAP[k][1] = t][2]
  ELSE t

IsSpecialtyToken(t) == t # <<>> /\ t \notin SPECIALTY_STOPWORDS

MapSpecialtyTokens(toks) == [i \in DOMAIN toks |-> SpecTokMapGet(toks[i])]

\* _clean_specialty_text after txt = str(x).lower().strip()
CleanSpecialtyTokens(txt) ==
  IF txt = <<>> THEN <<>>
  ELSE JoinSp(MapSpecialtyTokens(
         SelectSeq(SplitRuns(SubChars(txt, IsNonWord, " "), SPECIALTY_SPLIT, <<>>, <<>>),
                   IsSpecialtyToken)))

_clean_specialty_text(x) == CleanSpecialtyTokens(Strip(Lower(s(x))))

\* the pairs <<canon, k>>, k in [canon] + syns, of the entries from e on: the
\* order in which the loops of normalize_specialty visit the keys
RECURSIVE SpecialtyKeysFrom(_)
SpecialtyKeysFrom(e) ==
  IF e > Len(SPECIALTY_CANONICAL) THEN <<>>
  ELSE <<<<SPECIALTY_CANONICAL[e][1], SPECIALTY_CANONICAL[e][1]>>>> \o
       [j \in DOMAIN SPECIALTY_CANONICAL[e][2] |->
          <<SPECIALTY_CANONICAL[e][1], SPECIALTY_CANONICAL[e][2][j]>>] \o
       SpecialtyKeysFrom(e + 1)

SPECIALTY_KEYS == SpecialtyKeysFrom(1)

\* re.search(rf"\b{re.escape(k)}\b", base)
SearchWord(base, k) == \E i \in 1..Len(base) : WordMatchAt(base, i, k)

\* the keys that equal base, and the keys found in base as whole words
DirectKeys(base) == {i \in DOMAIN SPECIALTY_KEYS : SPECIALTY_KEYS[i][2] = base}

PartialKeys(base) == {i \in DOMAIN SPECIALTY_KEYS : SearchWord(base, SPECIALTY_KEYS[i][2])}

\* the canon of the first key of the non-empty set S
FirstCanon(S) == SPECIALTY_KEYS[CHOOSE i \in S : \A j \in S : i <= j][1]

\* the greatest of the scores ratio(s1, s2[a..b]), not below best
RECURSIVE BestWindow(_, _, _, _)
BestWindow(s1, s2, windows, best) ==
  IF windows = {} THEN best
  ELSE LET w == CHOOSE x \in windows : TRUE
       IN BestWindow(s1, s2, windows \ {w},
                     FracMax(best, ratio(s1, SubSeq(s2, w[1], w[2]))))

\* the windows of the longer string s2 that rapidfuzz aligns the shorter string
\* with: the prefixes shorter than len1, the windows of length len1, the suffixes
PartialWindows(len1, len2) ==
  {<<1, i>> : i \in 1..(len1 - 1)} \cup
  {<<i + 1, i + len1>> : i \in 0..(len2 - len1 - 1)} \cup
  {<<i + 1, len2>> : i \in (len2 - len1)..(len2 - 1)}

\* _partial_ratio_impl(s1, s2), s1 the shorter string
PartialRatioImpl(s1, s2) ==
  BestWindow(s1, s2, PartialWindows(Len(s1), Len(s2)), <<0, 1>>)

\* the second alignment of partial_ratio, for strings of equal length
PartialRatioBoth(s1, s2, res) ==
  IF ~FracEQ(res, <<1, 1>>) /\ Len(s1) = Len(s2)
  THEN FracMax(res, PartialRatioImpl(s2, s1))
  ELSE res

\* fuzz.partial_ratio(a, b) / 100 as a fraction
partial_ratio(a, b) ==
  IF a = <<>> /\ b = <<>> THEN <<1, 1>>
  ELSE IF Len(a) <= Len(b) THEN PartialRatioBoth(a, b, PartialRatioImpl(a, b))
  ELSE PartialRatioBoth(b, a, PartialRatioImpl(b, a))

NoSpecialty == [canon |-> <<>>, score |-> <<0, 1>>]

\* sc = fuzz.partial_ratio(base, k) of every key, in the order of the loop
FuzzyScores(base) ==
  [i \in DOMAIN SPECIALTY_KEYS |-> partial_ratio(base, SPECIALTY_KEYS[i][2])]

\* the key the loop ends with: sc > score replaces best, so the first key of the
\* greatest score stays
FirstBest(scores) ==
  CHOOSE i \in DOMAIN scores :
    /\ \A j \in DOMAIN scores : FracGE(scores[i], scores[j])
    /\ \A j \in 1..(i - 1) : FracGT(scores[i], scores[j])

\* best and score after the fuzzy loop of normalize_specialty (score starts at 0)
BestOfScores(scores, i) ==
  IF FracGT(scores[i], <<0, 1>>)
  THEN [canon |-> SPECIALTY_KEYS[i][1], score |-> scores[i]]
  ELSE NoSpecialty

FuzzySpecialty(scores) == BestOfScores(scores, FirstBest(scores))

\* score >= 88 and best
FUZZY_SPECIALTY_FLOOR == <<88, 100>>

\* a fuzzy stage that gives up the text when no key reaches the floor
FuzzyOrUnknown(base, best) ==
  IF FracGE(best.score, FUZZY_SPECIALTY_FLOOR) /\ best.canon # <<>>
  THEN Title(best.canon)
  ELSE <<"U","n","k","n","o","w","n">>

FuzzyOrBase(base, best) ==
  IF FracGE(best.score, FUZZY_SPECIALTY_FLOOR) /\ best.canon # <<>>
  THEN Title(best.canon)
  ELSE Title(base)

UNKNOWN == <<"U","n","k","n","o","w","n">>

\* normalize_specialty after base = _clean_specialty_text(val)
SpecialtyOfBase(base, advanced) ==
  IF base = <<>> THEN UNKNOWN
  ELSE IF DirectKeys(base) # {} THEN Title(FirstCanon(DirectKeys(base)))
  ELSE IF PartialKeys(base) # {} THEN Title(FirstCanon(PartialKeys(base)))
  ELSE IF advanced THEN FuzzyOrBase(base, FuzzySpecialty(FuzzyScores(base)))
  ELSE Title(base)

\* normalize_specialty(val), advanced being ADVANCED_MODE
normalize_specialty(val, advanced) == SpecialtyOfBase(_clean_specialty_text(val), advanced)

(***************************************************************************)
(* Files and tables                                                        *)
(*                                                                         *)
(* A file is absent, corrupt (no reader can parse it) or a workbook: a     *)
(* sequence of sheets, each with a header row and data rows of cells.  A   *)
(* cell is a string; the empty string is an empty cell.                    *)
(***************************************************************************)
AbsentFile == [state |-> "absent", sheets |-> <<>>]

CorruptFile == [state |-> "corrupt", sheets |-> <<>>]

Sheet(name, hdr, rows) == [name |-> name, hdr |-> hdr, rows |-> rows]

Book(sheets) == [state |-> "book", sheets |-> sheets]

\* Path.exists()
Exists(files, path) == files[path].state # "absent"

\* the cell texts that read_excel / read_csv turn into NaN (the default na_values)
NA_VALUES == {<<>>, <<"N","A">>, <<"n","a","n">>, <<"N","a","N">>, <<"n","u","l","l">>}

\* a cell as read with dtype=str
ReadCell(c) == IF c \in NA_VALUES THEN NaN ELSE c

\* a value as written by to_excel: NaN and "" both leave the cell empty
WriteCell(v) == IF IsNa(v) THEN <<>> ELSE v

ReadRows(rows) == [i \in DOMAIN rows |-> [j \in DOMAIN rows[i] |-> ReadCell(rows[i][j])]]

\* pd.read_excel(path, sheet_name=0, dtype=str): [ok, hdr, rows]
ReadFirstSheet(file) ==
  IF file.state # "book" THEN [ok |-> FALSE, hdr |-> <<>>, rows |-> <<>>]
  ELSE [ok |-> TRUE, hdr |-> file.sheets[1].hdr, rows |-> ReadRows(file.sheets[1].rows)]

\* pd.read_excel(path, sheet_name=name, dtype=str): fails when no sheet has the name
ReadNamedSheet(file, name) ==
  LET hits == {i \in DOMAIN file.sheets : file.sheets[i].name = name}
  IN IF file.state # "book" \/ hits = {}
     THEN [ok |-> FALSE, hdr |-> <<>>, rows |-> <<>>]
     ELSE LET i == CHOOSE x \in hits : \A y \in hits : x <= y
          IN [ok |-> TRUE, hdr |-> file.sheets[i].hdr, rows |-> ReadRows(file.sheets[i].rows)]

\* column headers
COL_BI_NAME == <<"B","I"," ","N","a","m","e">>

COL_STANDARD_NAME == <<"S","t","a","n","d","a","r","d","_","N","a","m","e">>

COL_ORIGINAL_SPECIALTY ==
  <<"O","r","i","g","i","n","a","l","_","S","p","e","c","i","a","l","t","y">>

COL_ALIAS_CLEAN == <<"A","l","i","a","s","_","C","l","e","a","n">>

\* order of characters (code points) for the comparison of strings
CHAR_ORDER ==
  <<" ", "(", ")", "-", ".", "0","1","2","3","4","5","6","7","8","9", "<", ">",
    "A","B","C","D","E","F","G","H","I","J","K","L","M",
    "N","O","P","Q","R","S","T","U","V","W","X","Y","Z", "[", "]", "_",
    "a","b","c","d","e","f","g","h","i","j","k","l","m",
    "n","o","p","q","r","s","t","u","v","w","x","y","z", "{", "}">>

CharRank(c) == CHOOSE i \in DOMAIN CHAR_ORDER : CHAR_ORDER[i] = c

\* a < b for strings
RECURSIVE StrLess(_, _)
StrLess(a, b) ==
  IF b = <<>> THEN FALSE
  ELSE IF a = <<>> THEN TRUE
  ELSE IF Head(a) = Head(b) THEN StrLess(Tail(a), Tail(b))
  ELSE CharRank(Head(a)) < CharRank(Head(b))

(***************************************************************************)
(* Golden Reference Repository                                             *)
(***************************************************************************)
\* the candidate locations of get_best_golden_reference, in its order, relative to
\* the project root
GOLDEN_CANDIDATES ==
  <<"reference/golden_doctors.xlsx", "reference/golden_reference.xlsx",
    "golden_reference.xlsx", "doctor_cleaner/golden_reference.xlsx">>

\* no path (None)
NoPath == "<none>"

\* the last existing candidate instead of the first
get_best_golden_reference_last(files) ==
  LET found == {i \in DOMAIN GOLDEN_CANDIDATES : Exists(files, GOLDEN_CANDIDATES[i])}
  IN IF found = {} THEN NoPath
     ELSE GOLDEN_CANDIDATES[CHOOSE i \in found : \A j \in found : i >= j]

get_best_golden_reference(files) ==
  LET found == {i \in DOMAIN GOLDEN_CANDIDATES : Exists(files, GOLDEN_CANDIDATES[i])}
  IN IF found = {} THEN NoPath
     ELSE GOLDEN_CANDIDATES[CHOOSE i \in found : \A j \in found : i <= j]

\* _normalize_cols, for one header
RECURSIVE ReplaceChar(_, _, _)
ReplaceChar(str, from, to) ==
  IF str = <<>> THEN <<>>
  ELSE <<IF Head(str) = from THEN to ELSE Head(str)>> \o ReplaceChar(Tail(str), from, to)

NormalizeCol(c) == ReplaceChar(Lower(Strip(CollapseSpaces(c))), "_", " ")

_normalize_cols(cols) == [i \in DOMAIN cols |-> NormalizeCol(cols[i])]

BI_NAME_HEADERS == {<<"b","i"," ","n","a","m","e">>, <<"b","i"," ","n","a","m","e","s">>}

STANDARD_NAME_HEADERS ==
  {<<"s","t","a","n","d","a","r","d"," ","n","a","m","e">>,
   <<"s","t","a","n","d","a","r","d","_","n","a","m","e">>,
   <<"s","t","a","n","d","a","r","d"," ","n","a","m","e","s">>}

SPECIALTY_HEADERS ==
  {<<"o","r","i","g","i","n","a","l"," ","s","p","e","c","i","a","l","t","y">>,
   <<"o","r","i","g","i","n","a","l","_","s","p","e","c","i","a","l","t","y">>,
   <<"s","p","e","c","i","a","l","t","y">>, <<"s","p","e","c","i","a","l","i","t","y">>}

\* the column the col_map loop of load_golden_map leaves for a key: the last
\* column whose normalized header is one of names (0: none)
LastColumnIn(cols_norm, names) ==
  LET hits == {i \in DOMAIN cols_norm : cols_norm[i] \in names}
  IN IF hits = {} THEN 0 ELSE CHOOSE i \in hits : \A j \in hits : i >= j

GoldenEntry(bi, std, spec, alias) ==
  [bi |-> bi, std |-> std, spec |-> spec, alias |-> alias]

\* DataFrame.dropna(subset=["BI Name","Standard_Name"])
HasNames(row) == ~IsNa(row.bi) /\ ~IsNa(row.std)

\* keep="first" instead of keep="last"
RECURSIVE drop_duplicates_keep_first(_)
drop_duplicates_keep_first(t) ==
  IF t = <<>> THEN <<>>
  ELSE <<t[1]>> \o drop_duplicates_keep_first(SelectSeq(Tail(t), LAMBDA r : r.alias # t[1].alias))

\* no de-duplication
keep_duplicates(t) == t

\* DataFrame.drop_duplicates(subset=["Alias_Clean"], keep="last")
RECURSIVE drop_duplicates_last(_)
drop_duplicates_last(t) ==
  IF t = <<>> THEN <<>>
  ELSE IF \E j \in 2..Len(t) : t[j].alias = t[1].alias
       THEN drop_duplicates_last(Tail(t))
       ELSE <<t[1]>> \o drop_duplicates_last(Tail(t))

WithAlias(rows) ==
  [i \in DOMAIN rows |->
     GoldenEntry(rows[i].bi, rows[i].std, rows[i].spec, clean_name(rows[i].bi, TRUE))]

EmptyLoad(src) == [ok |-> TRUE, err |-> "", src |-> src, table |-> <<>>]

FailedLoad(src, err) == [ok |-> FALSE, err |-> err, src |-> src, table |-> <<>>]

\* golden_df[[bi_col, std_col, spec_col]] of load_golden_map: the three
\* columns of the sheet g, Specialty empty when the sheet has none
GoldenColumns(g, bi, std, spec) ==
  [i \in DOMAIN g.rows |->
     [bi |-> g.rows[i][bi], std |-> g.rows[i][std],
      spec |-> IF spec = 0 THEN <<>> ELSE g.rows[i][spec]]]

\* load_golden_map once the columns are resolved: the missing-column error,
\* else drop the rows without names, compute Alias_Clean, de-duplicate
GoldenOfColumns(p, g, bi, std, spec) ==
  IF ~g.ok THEN FailedLoad(p, "ReadError")
  ELSE IF bi = 0 \/ std = 0 THEN FailedLoad(p, "ValueError")
  ELSE [ok |-> TRUE, err |-> "", src |-> p,
        table |-> drop_duplicates_last(
                    WithAlias(SelectSeq(GoldenColumns(g, bi, std, spec), HasNames)))]

\* the column resolution of load_golden_map over the normalised header
GoldenOfSheet(p, g, cols_norm) ==
  GoldenOfColumns(p, g, LastColumnIn(cols_norm, BI_NAME_HEADERS),
                  LastColumnIn(cols_norm, STANDARD_NAME_HEADERS),
                  LastColumnIn(cols_norm, SPECIALTY_HEADERS))

ReadGolden(p, g) == GoldenOfSheet(p, g, _normalize_cols(g.hdr))

\* the part of load_golden_map after the path is resolved: read, resolve the
\* columns, drop the rows without names, compute Alias_Clean, de-duplicate
LoadResolved(files, p) ==
  IF p = NoPath THEN EmptyLoad(NoPath) ELSE ReadGolden(p, ReadFirstSheet(files[p]))

\* the path load_golden_map reads: the given one when it exists, else the
\* auto-detected reference best (NoPath when there is none)
ResolvedPath(files, path, best) ==
  IF path # NoPath /\ Exists(files, path) THEN path ELSE best

\* load_golden_map(path): [ok, err, src, table]; src is the file that was read
load_golden_map(files, path) ==
  LoadResolved(files, ResolvedPath(files, path, get_best_golden_reference(files)))

\* sub in str
Contains(str, sub) == \E i \in 1..(Len(str) + 1) : MatchesAt(str, i, sub)

\* c.lower().strip() of update_golden_from_review
LowerStrip(c) == Strip(Lower(c))

REVIEWED_BI_NAME == <<"b","i"," ","n","a","m","e">>

REVIEWED_STANDARD_NAME == <<"s","t","a","n","d","a","r","d","_","n","a","m","e">>

SPECIALTY_LIKE ==
  {<<"s","p","e","c","i","a","l","t","y">>, <<"s","p","e","c","i","a","l","i","t","y">>,
   <<"d","e","p","a","r","t","m","e","n","t">>}

\* cols_lc with a default: the first column when no header is key
ColsLcOrFirst(hdr, key) ==
  LET hits == {i \in DOMAIN hdr : LowerStrip(hdr[i]) = key}
  IN IF hits = {} THEN 1 ELSE CHOOSE i \in hits : \A j \in hits : i >= j

\* cols_lc[key]: the last column whose lowered, stripped header is key (0: none)
ColsLc(hdr, key) ==
  LET hits == {i \in DOMAIN hdr : LowerStrip(hdr[i]) = key}
  IN IF hits = {} THEN 0 ELSE CHOOSE i \in hits : \A j \in hits : i >= j

\* cols_lc[specialty_cols[0]]: the first header that holds a specialty-like word
\* names the key (0: none)
SpecialtyColumn(hdr) ==
  LET like == {i \in DOMAIN hdr : \E x \in SPECIALTY_LIKE : Contains(LowerStrip(hdr[i]), x)}
  IN IF like = {} THEN 0
     ELSE ColsLc(hdr, LowerStrip(hdr[CHOOSE i \in like : \A j \in like : i <= j]))

\* the reviewed file: the "Doctors" sheet, else the first sheet
ReadReviewed(file) ==
  LET named == ReadNamedSheet(file, "Doctors")
  IN IF named.ok THEN named ELSE ReadFirstSheet(file)

\* the indices of S whose rows have the least Alias_Clean
LeastAlias(t, S) == {i \in S : \A j \in S : ~StrLess(t[j].alias, t[i].alias)}

\* the orders in which the rows S of t can come out sorted by Alias_Clean
RECURSIVE SortedOrders(_, _)
SortedOrders(t, S) ==
  IF S = {} THEN {<<>>}
  ELSE UNION {{<<i>> \o rest : rest \in SortedOrders(t, S \ {i})} : i \in LeastAlias(t, S)}

\* DataFrame.sort_values(by="Alias_Clean"): called without kind, that is with the
\* quicksort, which is not stable: rows with equal keys come out in any order
sort_values(t) ==
  {[k \in DOMAIN order |-> t[order[k]]] : order \in SortedOrders(t, DOMAIN t)}

GOLDEN_COLUMNS == <<COL_BI_NAME, COL_STANDARD_NAME, COL_ORIGINAL_SPECIALTY, COL_ALIAS_CLEAN>>

\* merged[keep_cols].to_excel(target, index=False)
GoldenBook(t) ==
  Book(<<Sheet("Sheet1", GOLDEN_COLUMNS,
           [i \in DOMAIN t |->
              <<WriteCell(t[i].bi), WriteCell(t[i].std), WriteCell(t[i].spec),
                WriteCell(t[i].alias)>>])>>)

LearnFailed(files, err, base) ==
  [ok |-> FALSE, err |-> err, target |-> NoPath, files |-> files,
   base |-> base, rev |-> <<>>, merged |-> <<>>]

LearnDone(files, target, base, rev_df, merged) ==
  [ok |-> TRUE, err |-> "", target |-> target,
   files |-> [files EXCEPT ![target] = GoldenBook(merged)],
   base |-> base, rev |-> rev_df, merged |-> merged]

\* rev_df of update_golden_from_review: the three columns of the reviewed sheet,
\* the rows without names dropped, Alias_Clean computed
ReviewedRows(rev, bi, std, spec) ==
  WithAlias(SelectSeq([i \in DOMAIN rev.rows |->
                         [bi |-> rev.rows[i][bi], std |-> rev.rows[i][std],
                          spec |-> IF spec = 0 THEN <<>> ELSE rev.rows[i][spec]]],
                      HasNames))

\* pd.concat([base, rev_df]).sort_values(by="Alias_Clean")
\*   .drop_duplicates(subset=["Alias_Clean"], keep="last"), then the write
MergeAndWrite(files, target, base, rev_df) ==
  {LearnDone(files, target, base, rev_df, drop_duplicates_last(sorted)) :
     sorted \in sort_values(base \o rev_df)}

\* update_golden_from_review once the reviewed columns are resolved
LearnOfColumns(files, target, base, rev, bi, std, spec) ==
  IF ~rev.ok THEN {LearnFailed(files, "ReadError", base)}
  ELSE IF bi = 0 \/ std = 0 THEN {LearnFailed(files, "ValueError", base)}
  ELSE MergeAndWrite(files, target, base, ReviewedRows(rev, bi, std, spec))

\* update_golden_from_review after the base is loaded and the reviewed file read
LearnOfLoaded(files, target, loaded, rev) ==
  IF ~loaded.ok THEN {LearnFailed(files, loaded.err, <<>>)}
  ELSE LearnOfColumns(files, target, loaded.table, rev,
                      ColsLc(rev.hdr, REVIEWED_BI_NAME),
                      ColsLc(rev.hdr, REVIEWED_STANDARD_NAME),
                      SpecialtyColumn(rev.hdr))

\* update_golden_from_review(base_golden_path, reviewed_path, out_path): the set of
\* its outcomes [ok, err, target, files, base, rev, merged], files being the file
\* system it leaves, base the loaded base table, rev the rows taken from the
\* reviewed file and merged the table it writes
update_golden_from_review(files, base_golden_path, reviewed_path, out_path) ==
  LearnOfLoaded(files, IF out_path = NoPath THEN base_golden_path ELSE out_path,
                load_golden_map(files, base_golden_path),
                ReadReviewed(files[reviewed_path]))

(***************************************************************************)
(* Matcher                                                                 *)
(***************************************************************************)
NoMatch == [found |-> FALSE, match |-> <<>>, score |-> <<0, 1>>]

Matched(bi, score) == [found |-> TRUE, match |-> bi, score |-> score]

\* max(score1, score2) of one golden row
RowScore(extracted_name, row) ==
  FracMax(ratio(Lower(extracted_name), Lower(s(row.bi))),
          ratio(Lower(extracted_name), Lower(s(row.alias))))

\* a floor that is not inclusive: max_score > threshold
AcceptsScoreAbove(max_score, best_score, threshold) ==
  FracGT(max_score, best_score) /\ FracGT(max_score, threshold)

\* a scan that lets a later row of the same score replace the best one
AcceptsScoreOrEqual(max_score, best_score, threshold) ==
  FracGE(max_score, best_score) /\ FracGT(max_score, <<0, 1>>) /\ FracGE(max_score, threshold)

\* max_score > best_score and max_score >= threshold
AcceptsScore(max_score, best_score, threshold) ==
  FracGT(max_score, best_score) /\ FracGE(max_score, threshold)

\* one step of the scan: the row replaces the best match when its score is
\* above the best score and reaches the threshold
ScanStep(best, bi, max_score, threshold) ==
  IF AcceptsScore(max_score, best.score, threshold) THEN Matched(bi, max_score) ELSE best

\* the scan of the golden rows, from row i on
RECURSIVE FuzzyScan(_, _, _, _, _)
FuzzyScan(extracted_name, golden_df, threshold, i, best) ==
  IF i > Len(golden_df) THEN best
  ELSE FuzzyScan(extracted_name, golden_df, threshold, i + 1,
                 ScanStep(best, golden_df[i].bi, RowScore(extracted_name, golden_df[i]),
                          threshold))

\* the fuzzy scan alone, without the two exact attempts before it
find_best_match_fuzzy_only(extracted_name, golden_df, threshold, advanced) ==
  IF extracted_name = <<>> \/ golden_df = <<>> THEN NoMatch
  ELSE IF ~advanced THEN NoMatch
  ELSE FuzzyScan(extracted_name, golden_df, threshold, 1, NoMatch)

\* the rows whose Alias_Clean equals extracted_clean
AliasHits(golden_df, extracted_clean) ==
  {i \in DOMAIN golden_df : golden_df[i].alias = extracted_clean}

\* find_best_match_in_golden after the direct match failed: the first row of the
\* alias matches clean, else the fuzzy scan in the advanced mode
MatchByAlias(extracted_name, golden_df, threshold, advanced, clean) ==
  IF clean # {}
  THEN Matched(golden_df[CHOOSE i \in clean : \A j \in clean : i <= j].bi, <<1, 1>>)
  ELSE IF ~advanced THEN NoMatch
  ELSE FuzzyScan(extracted_name, golden_df, threshold, 1, NoMatch)

\* find_best_match_in_golden(extracted_name, golden_df, threshold), advanced being
\* ADVANCED_MODE
find_best_match_in_golden(extracted_name, golden_df, threshold, advanced) ==
  IF extracted_name = <<>> \/ golden_df = <<>> THEN NoMatch
  ELSE IF \E i \in DOMAIN golden_df : golden_df[i].bi = extracted_name
       THEN Matched(extracted_name, <<1, 1>>)
  ELSE MatchByAlias(extracted_name, golden_df, threshold, advanced,
                    AliasHits(golden_df, clean_name(extracted_name, TRUE)))
(***************************************************************************)
(* Pipeline Orchestrator: process_file                                     *)
(***************************************************************************)
\* thresholds are fractions <<numerator, denominator>>
UNSURE_THRESHOLD_DEFAULT == <<7, 10>>

\* the threshold process_file passes to find_best_match_in_golden
GOLDEN_MATCH_THRESHOLD == <<4, 5>>

DEFAULT_NEW_ALIASES == "doctor_cleaner/Doctor_List_Final_Names.xlsx"

COL_SPECIALTY == <<"S","p","e","c","i","a","l","t","y">>

COL_EXTRACTED_NAME == <<"E","x","t","r","a","c","t","e","d","_","N","a","m","e">>

COL_SPECIALTY_STD == <<"S","p","e","c","i","a","l","t","y","_","S","t","d">>

COL_GOLDEN_MATCH == <<"G","o","l","d","e","n","_","M","a","t","c","h">>

COL_MATCH_SCORE == <<"M","a","t","c","h","_","S","c","o","r","e">>

COL_NAME_CHANGED == <<"N","a","m","e","_","C","h","a","n","g","e","d">>

COL_NOT_SURE == <<"N","o","t","_","S","u","r","e">>

COL_UNSURE == <<"U","n","s","u","r","e">>

NOT_SURE == <<"N","o","t"," ","S","u","r","e">>

\* the first column whose header is exactly name (0: none)
ColumnNamed(hdr, name) ==
  LET hits == {i \in DOMAIN hdr : hdr[i] = name}
  IN IF hits = {} THEN 0 ELSE CHOOSE i \in hits : \A j \in hits : i <= j

\* threshold = threshold or UNSURE_THRESHOLD_DEFAULT
EffectiveThreshold(threshold) ==
  IF threshold[1] = 0 THEN UNSURE_THRESHOLD_DEFAULT ELSE threshold

\* read the input as ReadInput does, but take the first column for the names when
\* no column is headed 'BI Name'
ReadInputAnyHeader(files, input_path) ==
  LET f == ReadFirstSheet(files[input_path])
      named == ColumnNamed(f.hdr, COL_BI_NAME)
      bi == IF named = 0 THEN 1 ELSE named
      sp == ColumnNamed(f.hdr, COL_SPECIALTY)
  IN IF ~f.ok THEN [ok |-> FALSE, err |-> "ReadError", has_specialty |-> FALSE, df |-> <<>>]
     ELSE [ok |-> TRUE, err |-> "", has_specialty |-> sp # 0,
           df |-> [i \in DOMAIN f.rows |->
                     [bi |-> f.rows[i][bi],
                      specialty |-> IF sp = 0 THEN <<>> ELSE f.rows[i][sp]]]]

\* pd.read_excel(input_path) and the check of the 'BI Name' column: [ok, err, df],
\* df the rows as records [bi, specialty], has_specialty whether the column exists
ReadInput(files, input_path) ==
  LET f == ReadFirstSheet(files[input_path])
      bi == ColumnNamed(f.hdr, COL_BI_NAME)
      sp == ColumnNamed(f.hdr, COL_SPECIALTY)
  IN IF ~f.ok THEN [ok |-> FALSE, err |-> "ReadError", has_specialty |-> FALSE, df |-> <<>>]
     ELSE IF bi = 0
          THEN [ok |-> FALSE, err |-> "ValueError: BI Name", has_specialty |-> FALSE,
                df |-> <<>>]
     ELSE [ok |-> TRUE, err |-> "", has_specialty |-> sp # 0,
           df |-> [i \in DOMAIN f.rows |->
                     [bi |-> f.rows[i][bi],
                      specialty |-> IF sp = 0 THEN <<>> ELSE f.rows[i][sp]]]]

IsPersonRow(row) == ~is_facility(row.bi)

IsFacilityRow(row) == is_facility(row.bi)

\* a person row after persons['Extracted_Name'] and persons['Cleaned_Name']
ExtractedPerson(row, extracted) ==
  [bi |-> row.bi, extracted |-> extracted, cleaned |-> clean_name(extracted, TRUE),
   specialty |-> row.specialty, specialty_std |-> row.specialty_std, golden_match |-> <<>>, match_score |-> <<0, 1>>,
   standard_name |-> <<>>, not_sure |-> <<>>]

\* golden_dict = dict(zip(BI Name, Standard_Name)): the last row of a BI Name
\* gives its Standard_Name
GoldenDict(golden, bi) ==
  golden[CHOOSE i \in DOMAIN golden :
           /\ golden[i].bi = bi
           /\ \A j \in DOMAIN golden : golden[j].bi = bi => i >= j].std

\* golden_df[golden_df['BI Name'] == match].iloc[0]['Standard_Name']
FirstStandardName(golden, bi) ==
  golden[CHOOSE i \in DOMAIN golden :
           /\ golden[i].bi = bi
           /\ \A j \in DOMAIN golden : golden[j].bi = bi => i <= j].std

\* the row after the result m of find_best_match_in_golden
WithBestMatch(p, golden, m) ==
  IF m.found /\ m.match # <<>>
  THEN [p EXCEPT !.golden_match = m.match, !.match_score = m.score,
                 !.standard_name = FirstStandardName(golden, m.match)]
  ELSE [p EXCEPT !.standard_name = p.extracted]

\* the matching of one extracted person against the golden table
MatchExtracted(p, golden, advanced) ==
  IF golden = <<>> THEN [p EXCEPT !.standard_name = p.cleaned]
  ELSE IF \E i \in DOMAIN golden : golden[i].bi = p.bi
       THEN [p EXCEPT !.standard_name = GoldenDict(golden, p.bi), !.golden_match = p.bi,
                      !.match_score = <<1, 1>>]
  ELSE IF p.extracted = <<>> THEN p
  ELSE WithBestMatch(p, golden,
         find_best_match_in_golden(p.extracted, golden, GOLDEN_MATCH_THRESHOLD, advanced))

\* one person after extraction and matching against the golden table
MatchPerson(row, golden, advanced) ==
  MatchExtracted(ExtractedPerson(row, extract_person_name_smart(row.bi)), golden, advanced)

MatchPersons(rows, golden, advanced) ==
  [i \in DOMAIN rows |-> MatchPerson(rows[i], golden, advanced)]

\* facilities['Standard_Name'] = clean_name(x, is_person=False)
CleanFacilities(rows) ==
  [i \in DOMAIN rows |->
     [bi |-> rows[i].bi, standard_name |-> clean_name(rows[i].bi, FALSE)]]

\* the rows of the new-aliases export: BI Name, Extracted_Name, Original_Specialty,
\* Standard_Name
AliasRow(p) == <<p.bi, p.extracted, p.specialty, p.standard_name>>

\* DataFrame.drop_duplicates(): the first of equal rows stays
RECURSIVE drop_duplicates_first(_, _)
drop_duplicates_first(rows, out) ==
  IF rows = <<>> THEN out
  ELSE drop_duplicates_first(Tail(rows),
         IF \E k \in DOMAIN out : out[k] = Head(rows) THEN out ELSE Append(out, Head(rows)))

IsUnknownAlias(golden, p) == \A i \in DOMAIN golden : golden[i].bi # p.bi

new_aliases_of(persons, golden) ==
  LET unknown == IF golden = <<>> THEN persons
                 ELSE SelectSeq(persons, LAMBDA p : IsUnknownAlias(golden, p))
  IN drop_duplicates_first([i \in DOMAIN unknown |-> AliasRow(unknown[i])], <<>>)

NEW_ALIASES_COLUMNS ==
  <<COL_BI_NAME, COL_EXTRACTED_NAME, COL_ORIGINAL_SPECIALTY, COL_STANDARD_NAME, COL_UNSURE>>

\* new_aliases.to_excel(new_out, index=False)
NewAliasesBook(rows) ==
  Book(<<Sheet("Sheet1", NEW_ALIASES_COLUMNS,
           [i \in DOMAIN rows |->
              <<WriteCell(rows[i][1]), WriteCell(rows[i][2]), WriteCell(rows[i][3]),
                WriteCell(rows[i][4]), NOT_SURE>>])>>)

TRUE_TEXT == <<"T","r","u","e">>

FALSE_TEXT == <<"F","a","l","s","e">>

\* a boolean cell
BoolCell(b) == IF b THEN TRUE_TEXT ELSE FALSE_TEXT

\* persons['BI Name'] != persons['Standard_Name']
NameChanged(bi, standard_name) == IsNa(bi) \/ bi # standard_name

\* person_cols: Golden_Match and Match_Score are columns of a run that matched
\* against a non-empty golden table, Not_Sure of a run that clustered
PersonCols(matched, clustered) ==
  <<COL_BI_NAME, COL_EXTRACTED_NAME, COL_ORIGINAL_SPECIALTY, COL_SPECIALTY_STD,
    COL_STANDARD_NAME>> \o
  (IF matched THEN <<COL_GOLDEN_MATCH, COL_MATCH_SCORE>> ELSE <<>>) \o
  <<COL_NAME_CHANGED>> \o
  (IF clustered THEN <<COL_NOT_SURE>> ELSE <<>>)

DIGITS == <<"0","1","2","3","4","5","6","7","8","9">>

\* str(n) for a natural number
RECURSIVE IntText(_)
IntText(n) == IF n < 10 THEN <<DIGITS[n + 1]>> ELSE IntText(n \div 10) \o <<DIGITS[(n % 10) + 1]>>

RECURSIVE Gcd(_, _)
Gcd(a, b) == IF b = 0 THEN a ELSE Gcd(b, a % b)

\* the cell of a score: the fraction in lowest terms
ScoreCell(f) ==
  LET g == Gcd(f[1], f[2])
  IN IntText(f[1] \div g) \o <<"/">> \o IntText(f[2] \div g)

FACILITIES_COLUMNS == <<COL_BI_NAME, COL_STANDARD_NAME, COL_NAME_CHANGED>>

DoctorsRow(p, matched, clustered) ==
  <<WriteCell(p.bi), WriteCell(p.extracted), WriteCell(p.specialty),
    WriteCell(p.specialty_std), WriteCell(p.standard_name)>> \o
  (IF matched THEN <<WriteCell(p.golden_match), ScoreCell(p.match_score)>> ELSE <<>>) \o
  <<BoolCell(NameChanged(p.bi, p.standard_name))>> \o
  (IF clustered THEN <<WriteCell(p.not_sure)>> ELSE <<>>)

DoctorsSheet(persons, matched, clustered) ==
  Sheet("Doctors", PersonCols(matched, clustered),
        [i \in DOMAIN persons |-> DoctorsRow(persons[i], matched, clustered)])

FacilitiesSheet(facilities) ==
  Sheet("Facilities", FACILITIES_COLUMNS,
        [i \in DOMAIN facilities |->
           <<WriteCell(facilities[i].bi), WriteCell(facilities[i].standard_name),
             BoolCell(NameChanged(facilities[i].bi, facilities[i].standard_name))>>])

\* the sheets the ExcelWriter block of process_file writes
OutputSheets(persons, facilities, matched, clustered) ==
  (IF persons # <<>> THEN <<DoctorsSheet(persons, matched, clustered)>> ELSE <<>>) \o
  (IF facilities # <<>> THEN <<FacilitiesSheet(facilities)>> ELSE <<>>)

(***************************************************************************)
(* Advanced Clustering: smart_merge_persons                                *)
(***************************************************************************)
AUTO_MERGE_THRESHOLD == <<9, 10>>

\* set(tokens)
ToSet(seq) == {seq[i] : i \in DOMAIN seq}

\* sorted(tokens)
RECURSIVE SortedTokens(_)
SortedTokens(S) ==
  IF S = {} THEN <<>>
  ELSE LET m == CHOOSE x \in S : \A y \in S \ {x} : StrLess(x, y)
       IN <<m>> \o SortedTokens(S \ {m})

\* Indel.distance(a, b)
IndelDistance(a, b) == Len(a) + Len(b) - 2 * LcsLen(a, b)

\* norm_distance(dist, lensum) / 100 as a fraction
NormDistance(dist, lensum) == IF lensum = 0 THEN <<1, 1>> ELSE <<lensum - dist, lensum>>

\* the three ratios of token_set_ratio: sect+ab against sect+ba, sect against
\* sect+ab and sect against sect+ba, which differ from sect by the separator and
\* the joined difference; without a common token only the first one counts
TokenSetOfJoined(sect_len, ab, ba) ==
  IF sect_len = 0 THEN NormDistance(IndelDistance(ab, ba), Len(ab) + Len(ba))
  ELSE FracMax(NormDistance(IndelDistance(ab, ba), 2 * sect_len + 2 + Len(ab) + Len(ba)),
               FracMax(NormDistance(1 + Len(ab), 2 * sect_len + 1 + Len(ab)),
                       NormDistance(1 + Len(ba), 2 * sect_len + 1 + Len(ba))))

\* token_set_ratio over the token sets tokens_a and tokens_b
TokenSetOfSets(tokens_a, tokens_b) ==
  IF tokens_a = {} \/ tokens_b = {} THEN <<0, 1>>
  ELSE IF /\ tokens_a \cap tokens_b # {}
          /\ (tokens_a \ tokens_b = {} \/ tokens_b \ tokens_a = {})
       THEN <<1, 1>>
  ELSE TokenSetOfJoined(Len(JoinSp(SortedTokens(tokens_a \cap tokens_b))),
                        JoinSp(SortedTokens(tokens_a \ tokens_b)),
                        JoinSp(SortedTokens(tokens_b \ tokens_a)))

\* fuzz.token_set_ratio(s1, s2) / 100.0 as a fraction
token_set_ratio(s1, s2) ==
  TokenSetOfSets(ToSet(SplitRuns(s1, WhiteSpace, <<>>, <<>>)),
                 ToSet(SplitRuns(s2, WhiteSpace, <<>>, <<>>)))

\* x.split()[-1] raises IndexError for a name of white space only
FamilyNameFails(x) == x # <<>> /\ SplitRuns(x, WhiteSpace, <<>>, <<>>) = <<>>

LastOf(seq) == seq[Len(seq)]

\* x.split()[-1] if x else ""
FamilyName(x) == IF x = <<>> THEN <<>> ELSE LastOf(SplitRuns(x, WhiteSpace, <<>>, <<>>))

_block_key(toks) ==
  IF toks = <<>> THEN <<<<>>, <<>>, 0>>
  ELSE <<toks[1], toks[Len(toks)],
         IF Len(toks) <= 2 THEN 0 ELSE IF Len(toks) <= 4 THEN 1 ELSE 2>>

\* the columns Std_Tokens, Family_Name (lowered) and Block of one row
ClusterColumns(name, toks) ==
  [name |-> name, toks |-> toks, fam |-> Lower(FamilyName(name)), block |-> _block_key(toks)]

ClusterRows(df) ==
  [i \in DOMAIN df |->
     ClusterColumns(df[i].standard_name, normalize_tokens(df[i].standard_name, TRUE))]

\* the pairs the loops compare: rows of one block, with the same family name and
\* with tokens
Compared(r, i, j) ==
  /\ r[i].block = r[j].block
  /\ r[i].fam = r[j].fam
  /\ r[i].toks # <<>>
  /\ r[j].toks # <<>>

\* the row whose name is chosen: the longer, or the one with more distinct tokens
Chosen(r, i, j) ==
  IF Len(r[i].toks) > Len(r[j].toks) THEN i
  ELSE IF Len(r[j].toks) > Len(r[i].toks) THEN j
  ELSE IF Cardinality(ToSet(r[i].toks)) >= Cardinality(ToSet(r[j].toks)) THEN i
  ELSE j

NoMerges == [mapping |-> <<>>, unsure |-> {}]

\* the body of the inner loop for a compared pair of similarity sim
PairStep(acc, r, i, j, sim, unsure_threshold) ==
  IF FracGE(sim, AUTO_MERGE_THRESHOLD)
  THEN [acc EXCEPT !.mapping =
          Append(@, <<r[IF Chosen(r, i, j) = i THEN j ELSE i].name, r[Chosen(r, i, j)].name>>)]
  ELSE IF FracGE(sim, unsure_threshold)
       THEN [acc EXCEPT !.unsure = @ \cup {r[i].name, r[j].name}]
  ELSE acc

\* the loops over the pairs i < j, from the pair (i, j) on; a name lies in one
\* block, so that the order of the blocks does not change mapping
RECURSIVE PairLoop(_, _, _, _, _)
PairLoop(r, i, j, unsure_threshold, acc) ==
  IF i > Len(r) THEN acc
  ELSE IF j > Len(r) THEN PairLoop(r, i + 1, i + 2, unsure_threshold, acc)
  ELSE IF ~Compared(r, i, j) THEN PairLoop(r, i, j + 1, unsure_threshold, acc)
  ELSE PairLoop(r, i, j + 1, unsure_threshold,
                PairStep(acc, r, i, j,
                         token_set_ratio(JoinSp(r[i].toks), JoinSp(r[j].toks)),
                         unsure_threshold))

\* mapping[name], name itself without an entry: the last assignment stays
MappingGet(mapping, name) ==
  IF \E k \in DOMAIN mapping : mapping[k][1] = name
  THEN mapping[CHOOSE k \in DOMAIN mapping :
                 /\ mapping[k][1] = name
                 /\ \A l \in DOMAIN mapping : mapping[l][1] = name => l <= k][2]
  ELSE name

\* a row after replace(mapping) and the Not_Sure column
MergedRow(p, name, unsure) ==
  [p EXCEPT !.standard_name = name,
            !.not_sure = IF name \in unsure THEN NOT_SURE ELSE <<>>]

\* a replace that follows the mapping a second time
ApplyMergesChained(df, acc) ==
  [i \in DOMAIN df |->
     MergedRow(df[i], MappingGet(acc.mapping, MappingGet(acc.mapping, df[i].standard_name)),
               acc.unsure)]

ApplyMerges(df, acc) ==
  [i \in DOMAIN df |->
     MergedRow(df[i], MappingGet(acc.mapping, df[i].standard_name), acc.unsure)]

\* smart_merge_persons(df, unsure_threshold) in the advanced mode
smart_merge_persons(df, unsure_threshold) ==
  ApplyMerges(df, PairLoop(ClusterRows(df), 1, 2, unsure_threshold, NoMerges))

\* if ADVANCED_MODE and not golden.empty: ... if missing_mask.any()
ClusterNeeded(persons, golden, advanced) ==
  /\ advanced
  /\ golden # <<>>
  /\ \E i \in DOMAIN persons : persons[i].golden_match = <<>>

(***************************************************************************)
(* Inputs of the model                                                     *)
(***************************************************************************)
CUSTOM_GOLDEN == "custom_golden.xlsx"

INPUT_PATH == "input.xlsx"

OUTPUT_PATH == "output.xlsx"

NEW_ALIASES_PATH == "new_aliases.xlsx"

REVIEWED_PATH == "reviewed.xlsx"

SECOND_REVIEWED_PATH == "reviewed_2.xlsx"

CandidatePaths == {GOLDEN_CANDIDATES[i] : i \in DOMAIN GOLDEN_CANDIDATES}

Paths ==
  CandidatePaths \cup
  {CUSTOM_GOLDEN, INPUT_PATH, OUTPUT_PATH, NEW_ALIASES_PATH, REVIEWED_PATH, SECOND_REVIEWED_PATH,
   DEFAULT_NEW_ALIASES}

NoFiles == [p \in Paths |-> AbsentFile]

\* raw names and standard names
N_DR_ALI == <<"D","r"," ","A","l","i">>

N_ALY == <<"A","l","y">>

N_OMAR == <<"O","m","a","r">>

N_OMER == <<"O","m","e","r">>

N_OMIR == <<"O","m","i","r">>

N_ZED == <<"Z","e","d">>

N_ENT_CLINIC == <<"E","N","T"," ","C","l","i","n","i","c">>

N_NA == <<"N","A">>

\* a title without a name
N_DR == <<"D","r">>

S_ALI == <<"A","l","i">>

S_OMAR == <<"O","m","a","r">>

S_SAMI == <<"S","a","m","i">>

SP_CARDIO == <<"C","a","r","d","i","o">>

SP_ENT == <<"E","N","T">>

COL_NAME == <<"N","a","m","e">>

\* headers of a golden reference file and of a reviewed file
GOLDEN_HEADER == <<COL_BI_NAME, COL_STANDARD_NAME, COL_ORIGINAL_SPECIALTY>>

REVIEWED_HEADER == <<COL_BI_NAME, COL_STANDARD_NAME, COL_SPECIALTY>>

\* a header without the Standard_Name column
HEADER_WITHOUT_STANDARD == <<COL_BI_NAME, COL_NAME, COL_SPECIALTY>>

\* the sequences over S of length at most n
RECURSIVE SeqsUpTo(_, _)
SeqsUpTo(S, n) ==
  IF n = 0 THEN {<<>>}
  ELSE LET shorter == SeqsUpTo(S, n - 1)
       IN shorter \cup {Append(q, x) : q \in {r \in shorter : Len(r) = n - 1}, x \in S}

\* bounds
MaxRows == 2

MaxInputRows == 2

MaxLearnRuns == 2

\* rows of a golden reference file: two spellings of one alias, and a row whose
\* BI Name cell is empty
BaseRowChoices ==
  {<<N_DR_ALI, S_ALI, SP_CARDIO>>, <<N_ALY, S_OMAR, <<>>>>, <<<<>>, S_ALI, <<>>>>}

\* rows of a reviewed file; "NA" is read as a missing value
ReviewedRowChoices ==
  {<<N_ALY, S_SAMI, SP_ENT>>, <<N_OMAR, S_ALI, SP_CARDIO>>, <<N_NA, S_ALI, <<>>>>}

\* a workbook whose header has no Standard_Name column
BookWithoutStandard ==
  Book(<<Sheet("Sheet1", HEADER_WITHOUT_STANDARD, <<<<N_OMAR, S_OMAR, <<>>>>>>)>>)

GoldenBooks ==
  {Book(<<Sheet("Sheet1", GOLDEN_HEADER, rows)>>) : rows \in SeqsUpTo(BaseRowChoices, MaxRows)}

GoldenFileChoices == GoldenBooks \cup {AbsentFile, CorruptFile, BookWithoutStandard}

ReviewedFileChoices ==
  {Book(<<Sheet("Doctors", REVIEWED_HEADER, rows)>>) :
     rows \in SeqsUpTo(ReviewedRowChoices, MaxRows)}
  \cup {CorruptFile, BookWithoutStandard}

\* the reviewed file of another review round
SecondReviewedFile ==
  Book(<<Sheet("Doctors", REVIEWED_HEADER,
           <<<<N_DR_ALI, S_SAMI, <<>>>>, <<N_OMER, S_OMAR, SP_ENT>>>>)>>)

\* a golden reference file in good order
ValidGolden ==
  Book(<<Sheet("Sheet1", GOLDEN_HEADER,
           <<<<N_DR_ALI, S_ALI, SP_CARDIO>>, <<N_OMAR, S_OMAR, <<>>>>>>)>>)

\* the states of a candidate file of the auto-discovery
CandidateFileChoices == {AbsentFile, ValidGolden, CorruptFile, BookWithoutStandard}

\* rows of an input file: BI Name, Specialty
InputRowChoices ==
  {<<N_DR_ALI, SP_CARDIO>>, <<N_ALY, <<>>>>, <<N_OMER, SP_ENT>>, <<N_ENT_CLINIC, SP_ENT>>,
   <<N_DR, <<>>>>}

N_DR_MOHAMMED_ALI == <<"D","r"," ","M","o","h","a","m","m","e","d"," ","A","l","i">>

N_ENT_CLINIC_DOWNTOWN ==
  <<"E","N","T"," ","C","l","i","n","i","c"," ","-"," ","D","o","w","n","t","o","w","n">>

N_DR_MOHAMED_ALY == <<"D","r","."," ","M","o","h","a","m","e","d"," ","A","l","y">>

\* the input of the end-to-end scenario: two doctors and a clinic
ScenarioFile ==
  Book(<<Sheet("Sheet1", <<COL_BI_NAME>>,
           <<<<N_DR_MOHAMMED_ALI>>, <<N_ENT_CLINIC_DOWNTOWN>>, <<N_DR_MOHAMED_ALY>>>>)>>)

N_ALI_ALI == <<"A","l","i"," ","A","l","i">>

\* an input with a doctor of the golden reference and a doctor of a doubled name
DoubledNameFile ==
  Book(<<Sheet("Sheet1", <<COL_BI_NAME>>, <<<<N_DR_ALI>>, <<N_ALI_ALI>>>>)>>)

\* an input with a BI Name cell that reads as a missing value
NaNameFile ==
  Book(<<Sheet("Sheet1", <<COL_BI_NAME>>, <<<<N_NA>>, <<N_ENT_CLINIC>>>>)>>)

INPUT_HEADER == <<COL_BI_NAME, COL_SPECIALTY>>

\* input files: with the BI Name column and up to MaxInputRows rows, with a header
\* that lacks it, without the Specialty column, the scenario of two doctors and a
\* clinic, and unreadable
InputFileChoices ==
  {Book(<<Sheet("Sheet1", INPUT_HEADER, rows)>>) :
     rows \in SeqsUpTo(InputRowChoices, MaxInputRows)}
  \cup {Book(<<Sheet("Sheet1", <<COL_NAME, COL_SPECIALTY>>, <<<<N_DR_ALI, SP_CARDIO>>>>)>>),
        Book(<<Sheet("Sheet1", <<COL_BI_NAME>>, <<<<N_ALY>>>>)>>),
        ScenarioFile, DoubledNameFile, NaNameFile, CorruptFile}

\* a workbook left at an output path by an earlier run
OldBook == Book(<<Sheet("Doctors", <<COL_BI_NAME>>, <<<<N_ZED>>>>)>>)

\* thresholds of the matcher
ThresholdChoices == {<<0, 1>>, <<1, 2>>, <<3, 4>>, <<4, 5>>, <<1, 1>>}

\* names given to the matcher
NameChoices == {<<>>, N_DR_ALI, N_ALY, N_OMER, N_ZED}

\* golden tables as load_golden_map returns them
GoldenTableChoices ==
  {drop_duplicates_last(WithAlias([i \in DOMAIN rows |->
       [bi |-> rows[i][1], std |-> rows[i][2], spec |-> rows[i][3]]])) :
     rows \in SeqsUpTo({<<N_DR_ALI, S_ALI, SP_CARDIO>>, <<N_OMAR, S_OMAR, NaN>>,
                        <<N_ALY, S_SAMI, NaN>>, <<N_OMIR, S_OMAR, NaN>>}, MaxRows)}

(***************************************************************************)
(* State                                                                   *)
(***************************************************************************)
VARIABLES
  fs,             \* the file system: path -> file
  ADVANCED_MODE,  \* whether the fuzzy libraries were imported
  ld,             \* the last load_golden_map call: its path argument and its result
  lr,             \* the learn runs so far: the last run, and the one before it
  mt,             \* the last find_best_match_in_golden call and its result
  pc,             \* the stage of the process run
  req,            \* the arguments of the process run
  mem,            \* the data frames of the process run
  pre,            \* the file system when the process run started
  err,            \* the exception that ended the process run
  mg,             \* the last smart_merge_persons call and its result
  tx,             \* the last call of the normalizer and the classifier on a raw name
  pl              \* the last pipeline.run_processing call and what it ran

vars == <<fs, ADVANCED_MODE, ld, lr, mt, pc, req, mem, pre, err, mg, tx, pl>>

runVars == <<pc, req, mem, pre, err>>

NoLoad ==
  [called |-> FALSE, path |-> NoPath, result |-> EmptyLoad(NoPath), file |-> AbsentFile]

\* the record of a load_golden_map call with the result r
LoadResult(files, path, r) ==
  [called |-> TRUE, path |-> path, result |-> r,
   file |-> IF r.src = NoPath THEN AbsentFile ELSE files[r.src]]

\* a load_golden_map call: its argument, its result, and the file it read
LoadRecord(files, path) == LoadResult(files, path, load_golden_map(files, path))

NoLearn ==
  [runs |-> 0, ok |-> TRUE, err |-> "", target |-> NoPath, base |-> <<>>, merged |-> <<>>,
   reviewed |-> NoPath, rev |-> <<>>, before |-> NoFiles,
   prev |-> [ok |-> FALSE, target |-> NoPath, merged |-> <<>>, reviewed |-> NoPath]]

NoMatchCall ==
  [called |-> FALSE, name |-> <<>>, table |-> <<>>, threshold |-> <<0, 1>>,
   result |-> NoMatch]

NoMergeCall == [called |-> FALSE, df |-> <<>>, unsure_threshold |-> <<0, 1>>, out |-> <<>>]

NoTextCall ==
  [called |-> FALSE, raw |-> <<>>, facility |-> FALSE, person_tokens |-> <<>>,
   facility_tokens |-> <<>>, cleaned |-> <<>>, again |-> FALSE, cleaned_tokens |-> <<>>,
   specialty |-> <<>>, person |-> <<>>, branch |-> <<>>, plain_tokens |-> <<>>]

NoJob ==
  [facade |-> FALSE, called |-> FALSE, golden_path |-> NoPath, new_aliases_out |-> NoPath,
   threshold |-> <<0, 1>>, ran |-> "none", fell_back |-> FALSE, returned |-> FALSE,
   ok |-> FALSE]

NoRequest == [golden_path |-> NoPath, new_aliases_out |-> NoPath, threshold |-> <<0, 1>>]

EmptyMem ==
  [df |-> <<>>, has_specialty |-> FALSE, golden |-> <<>>, persons |-> <<>>,
   facilities |-> <<>>, matched |-> FALSE, clustered |-> FALSE, new_aliases |-> <<>>]

NoRun ==
  /\ pc = "idle"
  /\ req = NoRequest
  /\ mem = EmptyMem
  /\ pre = NoFiles
  /\ err = ""

(***************************************************************************)
(* load: load_golden_map over the candidate files                          *)
(***************************************************************************)
InitLoad ==
  /\ \E c1, c2, c3, c4 \in CandidateFileChoices, g \in {AbsentFile, ValidGolden} :
       fs = [NoFiles EXCEPT ![GOLDEN_CANDIDATES[1]] = c1, ![GOLDEN_CANDIDATES[2]] = c2,
                            ![GOLDEN_CANDIDATES[3]] = c3, ![GOLDEN_CANDIDATES[4]] = c4,
                            ![CUSTOM_GOLDEN] = g]
  /\ ADVANCED_MODE = TRUE
  /\ ld = NoLoad
  /\ lr = NoLearn
  /\ mt = NoMatchCall
  /\ mg = NoMergeCall
  /\ tx = NoTextCall
  /\ pl = NoJob
  /\ NoRun

\* load_golden_map(path), without a path or with the path of the custom reference
LoadCall ==
  /\ ~ld.called
  /\ \E path \in {NoPath, CUSTOM_GOLDEN} :
       ld' = LoadRecord(fs, path)
  /\ UNCHANGED <<fs, ADVANCED_MODE, mg, tx, pl, lr, mt, runVars>>

NextLoad == LoadCall

SpecLoad == InitLoad /\ [][NextLoad]_vars

(***************************************************************************)
(* learn: update_golden_from_review run again and again on one reference   *)
(***************************************************************************)
InitLearn ==
  /\ \E g \in GoldenFileChoices, r \in ReviewedFileChoices, c \in {AbsentFile, ValidGolden} :
       fs = [NoFiles EXCEPT ![CUSTOM_GOLDEN] = g, ![REVIEWED_PATH] = r,
                            ![SECOND_REVIEWED_PATH] = SecondReviewedFile,
                            ![GOLDEN_CANDIDATES[1]] = c]
  /\ ADVANCED_MODE = TRUE
  /\ ld = NoLoad
  /\ lr = NoLearn
  /\ mt = NoMatchCall
  /\ mg = NoMergeCall
  /\ tx = NoTextCall
  /\ pl = NoJob
  /\ NoRun

\* one learn run on the custom reference, with one of the reviewed files
Learn ==
  /\ lr.runs < MaxLearnRuns
  /\ \E reviewed \in {REVIEWED_PATH, SECOND_REVIEWED_PATH} :
     \E o \in update_golden_from_review(fs, CUSTOM_GOLDEN, reviewed, NoPath) :
       /\ fs' = o.files
       /\ lr' = [runs |-> lr.runs + 1, ok |-> o.ok, err |-> o.err, target |-> o.target,
                 base |-> o.base, merged |-> o.merged,
                 reviewed |-> reviewed, rev |-> o.rev, before |-> fs,
                 prev |-> [ok |-> lr.runs > 0 /\ lr.ok, target |-> lr.target,
                           merged |-> lr.merged, reviewed |-> lr.reviewed]]
  /\ UNCHANGED <<ADVANCED_MODE, mg, tx, pl, ld, mt, runVars>>

\* the updated reference is loaded
LoadLearned ==
  /\ lr.runs > 0
  /\ ld' = LoadRecord(fs, CUSTOM_GOLDEN)
  /\ UNCHANGED <<fs, ADVANCED_MODE, mg, tx, pl, lr, mt, runVars>>

NextLearn == Learn \/ LoadLearned

SpecLearn == InitLearn /\ [][NextLearn]_vars

(***************************************************************************)
(* match: find_best_match_in_golden on a loaded table                      *)
(***************************************************************************)
InitMatch ==
  /\ fs = NoFiles
  /\ ADVANCED_MODE \in BOOLEAN
  /\ ld = NoLoad
  /\ lr = NoLearn
  /\ \E name \in NameChoices, table \in GoldenTableChoices, threshold \in ThresholdChoices :
       mt = [NoMatchCall EXCEPT !.name = name, !.table = table, !.threshold = threshold]
  /\ mg = NoMergeCall
  /\ tx = NoTextCall
  /\ pl = NoJob
  /\ NoRun

MatchCall ==
  /\ ~mt.called
  /\ mt' = [mt EXCEPT !.called = TRUE,
                      !.result = find_best_match_in_golden(mt.name, mt.table, mt.threshold,
                                                           ADVANCED_MODE)]
  /\ UNCHANGED <<fs, ADVANCED_MODE, mg, tx, pl, ld, lr, runVars>>

NextMatch == MatchCall

SpecMatch == InitMatch /\ [][NextMatch]_vars


(***************************************************************************)
(* merge: smart_merge_persons on a table of persons                        *)
(***************************************************************************)
M_SAMY == <<"A","l","i"," ","S","a","m","y"," ","O","m","a","r">>

M_SAMI == <<"A","l","i"," ","S","a","m","i"," ","O","m","a","r">>

M_SAMU == <<"A","l","i"," ","S","a","m","u"," ","O","m","a","r">>

M_TAXI == <<"A","l","i"," ","T","a","x","i"," ","O","m","a","r">>

M_SAMI_SAMI == <<"A","l","i"," ","S","a","m","i"," ","S","a","m","i"," ","O","m","a","r">>

\* the Standard_Name values of the tables given to smart_merge_persons
MergeNameChoices == {M_SAMY, M_SAMI, M_SAMU, M_TAXI, M_SAMI_SAMI, S_OMAR, <<>>}

MaxMergeRows == 3

\* the tables given to smart_merge_persons
MergeTableChoices ==
  {[i \in DOMAIN names |-> [standard_name |-> names[i], not_sure |-> <<>>]] :
     names \in SeqsUpTo(MergeNameChoices, MaxMergeRows)}

\* the unsure thresholds given to smart_merge_persons
UnsureThresholdChoices == {UNSURE_THRESHOLD_DEFAULT, <<4, 5>>}

InitMerge ==
  /\ fs = NoFiles
  /\ ADVANCED_MODE \in BOOLEAN
  /\ ld = NoLoad
  /\ lr = NoLearn
  /\ mt = NoMatchCall
  /\ \E df \in MergeTableChoices, unsure_threshold \in UnsureThresholdChoices :
       mg = [NoMergeCall EXCEPT !.df = df, !.unsure_threshold = unsure_threshold]
  /\ tx = NoTextCall
  /\ pl = NoJob
  /\ NoRun

\* smart_merge_persons(df, unsure_threshold): the table comes back as it is
\* without the fuzzy libraries
MergeCall ==
  /\ ~mg.called
  /\ mg' = [mg EXCEPT !.called = TRUE,
                      !.out = IF ADVANCED_MODE
                              THEN smart_merge_persons(mg.df, mg.unsure_threshold)
                              ELSE mg.df]
  /\ UNCHANGED <<fs, ADVANCED_MODE, ld, lr, mt, tx, pl, runVars>>

NextMerge == MergeCall

SpecMerge == InitMerge /\ [][NextMerge]_vars

(***************************************************************************)
(* text: the classifier and the normalizer on one raw name                 *)
(***************************************************************************)
W_DR == <<"D","r">>

W_ENT == <<"E","N","T">>

W_ENTER == <<"E","n","t","e","r">>

W_ALY == <<"A","l","y">>

W_AL == <<"a","l">>

W_B == <<"b">>

\* the words of the raw names
TextWords == {W_DR, W_ENT, W_ENTER, W_ALY, W_AL, W_B}

\* what stands between two words of a raw name
TextSeparators == {<<" ">>, <<"_">>, <<".">>}

MaxTextWords == 3

\* the raw names of n words
RECURSIVE TextsOf(_)
TextsOf(n) ==
  IF n = 1 THEN TextWords
  ELSE {t \o sep \o w : t \in TextsOf(n - 1), sep \in TextSeparators, w \in TextWords}

\* the raw names given to is_facility, normalize_tokens and clean_name
TextChoices == {<<>>, NaN} \cup UNION {TextsOf(n) : n \in 1..MaxTextWords}

InitText ==
  /\ fs = NoFiles
  /\ ADVANCED_MODE = TRUE
  /\ ld = NoLoad
  /\ lr = NoLearn
  /\ mt = NoMatchCall
  /\ mg = NoMergeCall
  /\ \E raw \in TextChoices : tx = [NoTextCall EXCEPT !.raw = raw]
  /\ pl = NoJob
  /\ NoRun

\* is_facility(raw), normalize_tokens(raw) for a person and for a facility,
\* clean_name(raw)
TextCall ==
  /\ ~tx.called
  /\ tx' = [tx EXCEPT !.called = TRUE,
                      !.facility = is_facility(tx.raw),
                      !.person_tokens = normalize_tokens(tx.raw, TRUE),
                      !.facility_tokens = normalize_tokens(tx.raw, FALSE),
                      !.cleaned = clean_name(tx.raw, TRUE)]
  /\ UNCHANGED <<fs, ADVANCED_MODE, ld, lr, mt, mg, pl, runVars>>

\* normalize_tokens(clean_name(raw)): the cleaned name goes through the
\* normalizer once more
NormalizeCleaned ==
  /\ tx.called
  /\ ~tx.again
  /\ tx' = [tx EXCEPT !.again = TRUE,
                      !.cleaned_tokens = normalize_tokens(tx.cleaned, TRUE)]
  /\ UNCHANGED <<fs, ADVANCED_MODE, ld, lr, mt, mg, pl, runVars>>

NextText == TextCall \/ NormalizeCleaned

SpecText == InitText /\ [][NextText]_vars

(***************************************************************************)
(* specialty: normalize_specialty on one raw value                         *)
(***************************************************************************)
SW_CARDIO == <<"C","a","r","d","i","o">>

SW_CARDO == <<"C","a","r","d","o">>

SW_ENT == <<"E","N","T">>

SW_CLINIC == <<"C","l","i","n","i","c">>

SW_DEPT == <<"D","e","p","t",".">>

SW_OF == <<"o","f">>

SW_ZZ == <<"Z","z">>

SW_OB == <<"O","B">>

SW_GYN == <<"G","y","n">>

\* the words of the raw specialty values
SpecialtyWords == {SW_CARDIO, SW_CARDO, SW_ENT, SW_CLINIC, SW_DEPT, SW_OF, SW_ZZ, SW_OB, SW_GYN}

\* what stands between two words of a raw specialty value
SpecialtySeparators == {<<" ">>, <<"/">>, <<" ","-"," ">>}

\* the raw values given to normalize_specialty: missing, empty, blank, a hyphen,
\* one word, two words
SpecialtyChoices ==
  {NaN, <<>>, <<" ">>, <<"-">>} \cup SpecialtyWords \cup
  {a \o sep \o b : a \in SpecialtyWords, sep \in SpecialtySeparators, b \in SpecialtyWords}

InitSpecialty ==
  /\ fs = NoFiles
  /\ ADVANCED_MODE \in BOOLEAN
  /\ ld = NoLoad
  /\ lr = NoLearn
  /\ mt = NoMatchCall
  /\ mg = NoMergeCall
  /\ \E raw \in SpecialtyChoices : tx = [NoTextCall EXCEPT !.raw = raw]
  /\ pl = NoJob
  /\ NoRun

\* normalize_specialty(raw), with the cleaned text it works on
SpecialtyCall ==
  /\ ~tx.called
  /\ tx' = [tx EXCEPT !.called = TRUE,
                      !.cleaned = _clean_specialty_text(tx.raw),
                      !.specialty = normalize_specialty(tx.raw, ADVANCED_MODE)]
  /\ UNCHANGED <<fs, ADVANCED_MODE, ld, lr, mt, mg, pl, runVars>>

NextSpecialty == SpecialtyCall

SpecSpecialty == InitSpecialty /\ [][NextSpecialty]_vars
(***************************************************************************)
(* branch: a person name followed by a branch code, given to the           *)
(* classifier and the normalizer                                           *)
(***************************************************************************)
\* person names that hold no service word
PersonNameChoices ==
  {N_DR_ALI, N_ALY, N_OMAR, N_OMER, N_ZED, N_ALI_ALI, N_DR_MOHAMMED_ALI, N_DR_MOHAMED_ALY}

\* a branch code as it is configured, and in capitals
BranchTexts ==
  BRANCH_CODES \cup {[i \in 1..Len(b) |-> UpperChar(b[i])] : b \in BRANCH_CODES}

InitBranch ==
  /\ fs = NoFiles
  /\ ADVANCED_MODE \in BOOLEAN
  /\ ld = NoLoad
  /\ lr = NoLearn
  /\ mt = NoMatchCall
  /\ mg = NoMergeCall
  /\ \E p \in PersonNameChoices, b \in BranchTexts :
       tx = [NoTextCall EXCEPT !.person = p, !.branch = b, !.raw = p \o <<" ">> \o b]
  /\ pl = NoJob
  /\ NoRun

\* is_facility('p b'), normalize_tokens('p b') and normalize_tokens(p)
BranchCall ==
  /\ ~tx.called
  /\ tx' = [tx EXCEPT !.called = TRUE,
                      !.facility = is_facility(tx.raw),
                      !.person_tokens = normalize_tokens(tx.raw, TRUE),
                      !.plain_tokens = normalize_tokens(tx.person, TRUE)]
  /\ UNCHANGED <<fs, ADVANCED_MODE, ld, lr, mt, mg, pl, runVars>>

NextBranch == BranchCall

SpecBranch == InitBranch /\ [][NextBranch]_vars
(***************************************************************************)
(* process: one process_file run, stage by stage                           *)
(***************************************************************************)
InitRun ==
  /\ \E input \in InputFileChoices, c1 \in CandidateFileChoices,
        g \in {AbsentFile, ValidGolden}, old \in {AbsentFile, OldBook} :
       fs = [NoFiles EXCEPT ![INPUT_PATH] = input, ![GOLDEN_CANDIDATES[1]] = c1,
                            ![CUSTOM_GOLDEN] = g, ![OUTPUT_PATH] = old,
                            ![NEW_ALIASES_PATH] = old]
  /\ ADVANCED_MODE \in BOOLEAN
  /\ ld = NoLoad
  /\ lr = NoLearn
  /\ mt = NoMatchCall
  /\ mg = NoMergeCall
  /\ tx = NoTextCall
  /\ pl = NoJob
  /\ NoRun

Running == pc \notin {"idle", "done", "failed", "interrupted"}

\* the run ends with an exception
Raise(e) ==
  /\ pc' = "failed"
  /\ err' = e

\* process_file(input_path, output_path, golden_path, new_aliases_out, threshold)
StartRun ==
  /\ pc = "idle"
  /\ \E golden_path \in {NoPath, CUSTOM_GOLDEN}, threshold \in {<<0, 1>>, <<1, 2>>} :
       req' = [golden_path |-> golden_path, new_aliases_out |-> NEW_ALIASES_PATH,
               threshold |-> EffectiveThreshold(threshold)]
  /\ pre' = fs
  /\ pc' = "load_input"
  /\ UNCHANGED <<fs, ADVANCED_MODE, mg, tx, pl, ld, lr, mt, mem, err>>

\* LOAD_INPUT: read the input, fail without the 'BI Name' column
LoadInput ==
  /\ pc = "load_input"
  /\ LET r == ReadInput(fs, INPUT_PATH)
     IN IF ~r.ok THEN Raise(r.err) /\ UNCHANGED mem
        ELSE /\ mem' = [mem EXCEPT !.df = r.df, !.has_specialty = r.has_specialty]
             /\ pc' = "load_golden"
             /\ UNCHANGED err
  /\ UNCHANGED <<fs, ADVANCED_MODE, mg, tx, pl, ld, lr, mt, req, pre>>

\* LOAD_GOLDEN: golden = load_golden_map(golden_path)
LoadGolden ==
  /\ pc = "load_golden"
  /\ ld' = LoadRecord(fs, req.golden_path)
  /\ IF ~ld'.result.ok THEN Raise(ld'.result.err) /\ UNCHANGED mem
     ELSE /\ mem' = [mem EXCEPT !.golden = ld'.result.table]
          /\ pc' = "classify"
          /\ UNCHANGED err
  /\ UNCHANGED <<fs, ADVANCED_MODE, mg, tx, pl, lr, mt, req, pre>>

\* df['Original_Specialty'] and df['Specialty_Std']
WithSpecialty(df, has_specialty, advanced) ==
  [i \in DOMAIN df |->
     [bi |-> df[i].bi,
      specialty |-> IF has_specialty THEN df[i].specialty ELSE <<>>,
      specialty_std |-> IF has_specialty THEN normalize_specialty(df[i].specialty, advanced)
                        ELSE UNKNOWN]]

\* persons and facilities by Entity_Type
Classified(m, df) ==
  [m EXCEPT !.df = df,
            !.persons = SelectSeq(df, IsPersonRow),
            !.facilities = SelectSeq(df, IsFacilityRow)]

\* CLASSIFY: the specialty columns, and persons and facilities by is_facility
Classify ==
  /\ pc = "classify"
  /\ mem' = Classified(mem, WithSpecialty(mem.df, mem.has_specialty, ADVANCED_MODE))
  /\ pc' = "extract_and_match"
  /\ UNCHANGED <<fs, ADVANCED_MODE, mg, tx, pl, ld, lr, mt, req, pre, err>>

\* EXTRACT_AND_MATCH: extraction, then the match of every person against golden
ExtractAndMatch ==
  /\ pc = "extract_and_match"
  /\ mem' = [mem EXCEPT !.persons = MatchPersons(mem.persons, mem.golden, ADVANCED_MODE),
                        !.matched = mem.persons # <<>> /\ mem.golden # <<>>]
  /\ pc' = IF ClusterNeeded(mem'.persons, mem.golden, ADVANCED_MODE)
           THEN "cluster" ELSE "process_facilities"
  /\ UNCHANGED <<fs, ADVANCED_MODE, mg, tx, pl, ld, lr, mt, req, pre, err>>

\* CLUSTER: persons = smart_merge_persons(persons, unsure_threshold=threshold)
Cluster ==
  /\ pc = "cluster"
  /\ IF \E i \in DOMAIN mem.persons : FamilyNameFails(mem.persons[i].standard_name)
     THEN Raise("IndexError") /\ UNCHANGED mem
     ELSE /\ mem' = [mem EXCEPT !.persons = smart_merge_persons(mem.persons, req.threshold),
                                !.clustered = TRUE]
          /\ pc' = "process_facilities"
          /\ UNCHANGED err
  /\ UNCHANGED <<fs, ADVANCED_MODE, mg, tx, pl, ld, lr, mt, req, pre>>

\* PROCESS_FACILITIES
ProcessFacilities ==
  /\ pc = "process_facilities"
  /\ mem' = [mem EXCEPT !.facilities = CleanFacilities(mem.facilities)]
  /\ pc' = "export_new_aliases"
  /\ UNCHANGED <<fs, ADVANCED_MODE, mg, tx, pl, ld, lr, mt, req, pre, err>>

\* new_aliases.to_excel(new_out) when there is a row
WriteNewAliases(new_out, new_aliases) ==
  IF mem.persons = <<>> \/ new_aliases = <<>>
  THEN UNCHANGED <<fs, mem>>
  ELSE /\ fs' = [fs EXCEPT ![new_out] = NewAliasesBook(new_aliases)]
       /\ mem' = [mem EXCEPT !.new_aliases = new_aliases]

\* EXPORT_NEW_ALIASES: inside try/except; without persons the column selection
\* raises and nothing is written; a file is written only for one row or more
ExportNewAliases ==
  /\ pc = "export_new_aliases"
  /\ WriteNewAliases(IF req.new_aliases_out = NoPath THEN DEFAULT_NEW_ALIASES
                     ELSE req.new_aliases_out,
                     new_aliases_of(mem.persons, mem.golden))
  /\ pc' = "open_writer"
  /\ UNCHANGED <<ADVANCED_MODE, mg, tx, pl, ld, lr, mt, req, pre, err>>

\* WRITE_OUTPUT, entering the with block: pd.ExcelWriter(output_path) opens the
\* file at output_path for writing, which empties it
OpenWriter ==
  /\ pc = "open_writer"
  /\ fs' = [fs EXCEPT ![OUTPUT_PATH] = CorruptFile]
  /\ pc' = "save_writer"
  /\ UNCHANGED <<ADVANCED_MODE, mg, tx, pl, ld, lr, mt, req, mem, pre, err>>

\* writer.close(): the sheets written make the file at output_path
SaveSheets(sheets) ==
  IF sheets = <<>> THEN Raise("IndexError") /\ UNCHANGED fs
  ELSE /\ fs' = [fs EXCEPT ![OUTPUT_PATH] = Book(sheets)]
       /\ pc' = "report_stats"
       /\ UNCHANGED err

\* WRITE_OUTPUT, leaving the with block: the workbook is saved into the open
\* file; a workbook without any sheet cannot be saved
SaveWriter ==
  /\ pc = "save_writer"
  /\ SaveSheets(OutputSheets(mem.persons, mem.facilities, mem.matched, mem.clustered))
  /\ UNCHANGED <<ADVANCED_MODE, mg, tx, pl, ld, lr, mt, req, mem, pre>>

\* REPORT_STATS
ReportStats ==
  /\ pc = "report_stats"
  /\ pc' = "done"
  /\ UNCHANGED <<fs, ADVANCED_MODE, mg, tx, pl, ld, lr, mt, req, mem, pre, err>>

\* the process is killed
Interrupt ==
  /\ Running
  /\ pc' = "interrupted"
  /\ UNCHANGED <<fs, ADVANCED_MODE, mg, tx, pl, ld, lr, mt, req, mem, pre, err>>

Next ==
  \/ StartRun
  \/ LoadInput
  \/ LoadGolden
  \/ Classify
  \/ ExtractAndMatch
  \/ Cluster
  \/ ProcessFacilities
  \/ ExportNewAliases
  \/ OpenWriter
  \/ SaveWriter
  \/ ReportStats
  \/ Interrupt

Init == InitRun

Spec == Init /\ [][Next]_vars


(***************************************************************************)
(* pipeline: run_processing(req), through the facade of uni_names when it  *)
(* was imported, else (or after the facade failed) through process_file of *)
(* the CLI                                                                 *)
(***************************************************************************)
\* input files of the jobs
JobInputChoices ==
  {Book(<<Sheet("Sheet1", INPUT_HEADER, <<<<N_DR_ALI, SP_CARDIO>>, <<N_OMER, SP_ENT>>>>)>>),
   Book(<<Sheet("Sheet1", INPUT_HEADER, <<<<N_ENT_CLINIC, SP_ENT>>>>)>>),
   Book(<<Sheet("Sheet1", <<COL_BI_NAME>>, <<<<N_ALY>>>>)>>),
   CorruptFile}

\* a golden reference of the user
UserGolden ==
  Book(<<Sheet("Sheet1", GOLDEN_HEADER, <<<<N_OMER, S_OMAR, SP_ENT>>>>)>>)

InitPipeline ==
  /\ \E input \in JobInputChoices, c1, c2 \in {AbsentFile, ValidGolden, CorruptFile},
        g \in {AbsentFile, UserGolden, CorruptFile} :
       fs = [NoFiles EXCEPT ![INPUT_PATH] = input, ![GOLDEN_CANDIDATES[1]] = c1,
                            ![GOLDEN_CANDIDATES[3]] = c2, ![CUSTOM_GOLDEN] = g]
  /\ ADVANCED_MODE \in BOOLEAN
  /\ ld = NoLoad
  /\ lr = NoLearn
  /\ mt = NoMatchCall
  /\ mg = NoMergeCall
  /\ tx = NoTextCall
  /\ \E facade \in BOOLEAN : pl = [NoJob EXCEPT !.facade = facade]
  /\ NoRun

\* golden_path_to_use: the path of the request when the file exists, else the
\* best candidate
golden_path_to_use(files, golden_path) ==
  ResolvedPath(files, golden_path, get_best_golden_reference(files))

\* _facade_process_file(input, output, auto_threshold, manual_threshold,
\* progress_callback): process_file of the CLI with golden_path =
\* kwargs.get('golden_path') and new_aliases_out = kwargs.get('new_aliases_out'),
\* neither of which run_processing passes
FacadeRequest(job) ==
  [golden_path |-> NoPath, new_aliases_out |-> NoPath,
   threshold |-> EffectiveThreshold(job.threshold)]

\* _enhanced_process_file(input, output, golden_path=golden_path_to_use,
\* new_aliases_out, threshold)
CliRequest(files, job) ==
  [golden_path |-> golden_path_to_use(files, job.golden_path),
   new_aliases_out |-> job.new_aliases_out,
   threshold |-> EffectiveThreshold(job.threshold)]

\* run_processing(req) up to the call of the processing path it tries first
RunProcessing ==
  /\ pc = "idle"
  /\ ~pl.called
  /\ \E golden_path \in {NoPath, CUSTOM_GOLDEN}, threshold \in {<<7, 10>>, <<1, 2>>} :
       pl' = [pl EXCEPT !.called = TRUE, !.golden_path = golden_path,
                        !.new_aliases_out = NEW_ALIASES_PATH, !.threshold = threshold,
                        !.ran = IF pl.facade THEN "facade" ELSE "cli"]
  /\ req' = IF pl.facade THEN FacadeRequest(pl') ELSE CliRequest(fs, pl')
  /\ pre' = fs
  /\ pc' = "load_input"
  /\ UNCHANGED <<fs, ADVANCED_MODE, mg, tx, ld, lr, mt, mem, err>>

\* the facade returned success = False: run_processing raises, catches, and
\* falls back to process_file of the CLI
FallBackToCli ==
  /\ pc = "failed"
  /\ pl.ran = "facade"
  /\ pl' = [pl EXCEPT !.ran = "cli", !.fell_back = TRUE]
  /\ req' = CliRequest(fs, pl)
  /\ pre' = fs
  /\ mem' = EmptyMem
  /\ err' = ""
  /\ pc' = "load_input"
  /\ UNCHANGED <<fs, ADVANCED_MODE, mg, tx, ld, lr, mt>>

\* run_processing returns after the path it ran has finished
JobReturns ==
  /\ pc = "done"
  /\ ~pl.returned
  /\ pl' = [pl EXCEPT !.returned = TRUE, !.ok = TRUE]
  /\ UNCHANGED <<fs, ADVANCED_MODE, mg, tx, ld, lr, mt, runVars>>

\* process_file of the CLI raised: RuntimeError("All processing methods failed")
JobRaises ==
  /\ pc = "failed"
  /\ pl.ran = "cli"
  /\ ~pl.returned
  /\ pl' = [pl EXCEPT !.returned = TRUE, !.ok = FALSE]
  /\ UNCHANGED <<fs, ADVANCED_MODE, mg, tx, ld, lr, mt, runVars>>

NextPipeline ==
  \/ RunProcessing
  \/ FallBackToCli
  \/ JobReturns
  \/ JobRaises
  \/ LoadInput
  \/ LoadGolden
  \/ Classify
  \/ ExtractAndMatch
  \/ Cluster
  \/ ProcessFacilities
  \/ ExportNewAliases
  \/ OpenWriter
  \/ SaveWriter
  \/ ReportStats

SpecPipeline == InitPipeline /\ [][NextPipeline]_vars
(***************************************************************************)
(* review loop: process_file, update_golden_from_review on the new-aliases *)
(* workbook it exported, and process_file again with the same request      *)
(***************************************************************************)
\* input files of the review loop
ReviewInputChoices ==
  {Book(<<Sheet("Sheet1", INPUT_HEADER, rows)>>) :
     rows \in SeqsUpTo(InputRowChoices, MaxInputRows)}
  \cup {ScenarioFile, DoubledNameFile}

InitReview ==
  /\ \E input \in ReviewInputChoices, g \in {AbsentFile, ValidGolden} :
       fs = [NoFiles EXCEPT ![INPUT_PATH] = input, ![CUSTOM_GOLDEN] = g]
  /\ ADVANCED_MODE \in BOOLEAN
  /\ ld = NoLoad
  /\ lr = NoLearn
  /\ mt = NoMatchCall
  /\ mg = NoMergeCall
  /\ tx = NoTextCall
  /\ pl = NoJob
  /\ NoRun

\* process_file(input_path, output_path, golden_path, new_aliases_out) of the first round
StartReviewRound ==
  /\ pc = "idle"
  /\ req' = [golden_path |-> CUSTOM_GOLDEN, new_aliases_out |-> NEW_ALIASES_PATH,
             threshold |-> EffectiveThreshold(<<0, 1>>)]
  /\ pre' = fs
  /\ pc' = "load_input"
  /\ UNCHANGED <<fs, ADVANCED_MODE, mg, tx, pl, ld, lr, mt, mem, err>>

\* update_golden_from_review(golden_path, new_aliases_out): the exported workbook
\* is learnt into the reference the run was given
LearnNewAliases ==
  /\ pc = "done"
  /\ lr.runs = 0
  /\ mem.new_aliases # <<>>
  /\ \E o \in update_golden_from_review(fs, req.golden_path, req.new_aliases_out, NoPath) :
       /\ fs' = o.files
       /\ lr' = [runs |-> lr.runs + 1, ok |-> o.ok, err |-> o.err, target |-> o.target,
                 base |-> o.base, merged |-> o.merged,
                 reviewed |-> req.new_aliases_out, rev |-> o.rev, before |-> fs,
                 prev |-> [ok |-> FALSE, target |-> lr.target,
                           merged |-> lr.merged, reviewed |-> lr.reviewed]]
  /\ pc' = "learned"
  /\ UNCHANGED <<ADVANCED_MODE, mg, tx, pl, ld, mt, req, mem, pre, err>>

\* process_file again, on the same input against the updated reference
ProcessAgain ==
  /\ pc = "learned"
  /\ lr.ok
  /\ mem' = EmptyMem
  /\ pre' = fs
  /\ pc' = "load_input"
  /\ UNCHANGED <<fs, ADVANCED_MODE, mg, tx, pl, ld, lr, mt, req, err>>

NextReview ==
  \/ StartReviewRound
  \/ LoadInput
  \/ LoadGolden
  \/ Classify
  \/ ExtractAndMatch
  \/ Cluster
  \/ ProcessFacilities
  \/ ExportNewAliases
  \/ OpenWriter
  \/ SaveWriter
  \/ ReportStats
  \/ LearnNewAliases
  \/ ProcessAgain

SpecReview == InitReview /\ [][NextReview]_vars
(***************************************************************************)
(* Properties                                                              *)
(***************************************************************************)
\* the input of the run is a workbook without the 'BI Name' column
InputLacksBiName ==
  /\ pre[INPUT_PATH].state = "book"
  /\ \A i \in DOMAIN pre[INPUT_PATH].sheets[1].hdr :
       pre[INPUT_PATH].sheets[1].hdr[i] # COL_BI_NAME

\* C1: a process run on an input without the 'BI Name' column goes no further than
\* LOAD_INPUT, where it ends in the error about that column, and up to then it has
\* neither created nor modified the output workbook or the new-aliases workbook.
C1_MissingBiNameFailsBeforeAnyWrite ==
  (pc # "idle" /\ InputLacksBiName) =>
    /\ pc \in {"load_input", "failed", "interrupted"}
    /\ pc = "failed" => err = "ValueError: BI Name"
    /\ fs[OUTPUT_PATH] = pre[OUTPUT_PATH]
    /\ fs[NEW_ALIASES_PATH] = pre[NEW_ALIASES_PATH]
    /\ fs[DEFAULT_NEW_ALIASES] = pre[DEFAULT_NEW_ALIASES]

C1_Witness ==
  /\ pc = "failed"
  /\ InputLacksBiName
  /\ err = "ValueError: BI Name"
  /\ pre[OUTPUT_PATH] = OldBook
  /\ fs[OUTPUT_PATH] = OldBook

\* C2: when no golden path is given, loading the golden reference never makes the
\* process run fail: also with an unreadable auto-discovered file, or one without
\* the BI Name or Standard_Name column, the run goes on with an empty reference.
C2_GoldenLoadNeverFails ==
  (pc # "idle" /\ req.golden_path = NoPath /\ ld.called) =>
    /\ ld.result.ok
    /\ pc # "failed"
    /\ pre[GOLDEN_CANDIDATES[1]] \in {AbsentFile, CorruptFile, BookWithoutStandard}
         => mem.golden = <<>>

\* the workbook a run that got to WRITE_OUTPUT writes
CompleteOutput ==
  Book(OutputSheets(mem.persons, mem.facilities, mem.matched, mem.clustered))

\* C3: the output workbook is published atomically: a run that raised has left at
\* output_path either the file of before the run or the complete result.
C3_OutputPublishedAtomically ==
  pc = "failed" =>
    \/ fs[OUTPUT_PATH] = pre[OUTPUT_PATH]
    \/ fs[OUTPUT_PATH] = CompleteOutput

\* the candidate files in the order of the claim
C4_ORDER ==
  <<"reference/golden_doctors.xlsx", "reference/golden_reference.xlsx",
    "golden_reference.xlsx", "doctor_cleaner/golden_reference.xlsx">>

\* C4: without a path, and with a path that does not exist, load_golden_map reads the
\* first existing candidate in the order of C4_ORDER, whatever subset of the four
\* exists, and returns an empty table without error when none exists.
C4_FirstExistingCandidate ==
  (ld.called /\ (ld.path = NoPath \/ fs[ld.path] = AbsentFile)) =>
    /\ \A i \in DOMAIN C4_ORDER :
         (/\ fs[C4_ORDER[i]] # AbsentFile
          /\ \A j \in 1..(i - 1) : fs[C4_ORDER[j]] = AbsentFile)
           => ld.result.src = C4_ORDER[i]
    /\ (\A i \in DOMAIN C4_ORDER : fs[C4_ORDER[i]] = AbsentFile)
         => ld.result.ok /\ ld.result.table = <<>> /\ ld.result.src = NoPath

C4_Witness ==
  /\ ld.called
  /\ ld.path = CUSTOM_GOLDEN
  /\ fs[CUSTOM_GOLDEN] = AbsentFile
  /\ fs[C4_ORDER[1]] = AbsentFile
  /\ fs[C4_ORDER[2]] = ValidGolden
  /\ fs[C4_ORDER[3]] = ValidGolden
  /\ ld.result.src = C4_ORDER[2]
  /\ ld.result.table # <<>>

\* the Alias_Clean values of the rows of a table are pairwise different
UniqueAlias(t) == \A i, j \in DOMAIN t : t[i].alias = t[j].alias => i = j

\* the rows that have both names, in file order and each with the clean form of its
\* BI Name, of a golden file whose columns are BI Name, Standard_Name,
\* Original_Specialty
FileRows(file) ==
  IF file.state # "book" THEN <<>>
  ELSE IF SubSeq(file.sheets[1].hdr, 1, 3) # GOLDEN_HEADER THEN <<>>
  ELSE LET rows == SelectSeq([i \in DOMAIN file.sheets[1].rows |->
                                [bi |-> ReadCell(file.sheets[1].rows[i][1]),
                                 std |-> ReadCell(file.sheets[1].rows[i][2]),
                                 spec |-> ReadCell(file.sheets[1].rows[i][3])]],
                             HasNames)
       IN [i \in DOMAIN rows |->
             [bi |-> rows[i].bi, std |-> rows[i].std, spec |-> rows[i].spec,
              alias |-> clean_name(rows[i].bi, TRUE)]]

\* the table holds, for every Alias_Clean of the rows, the last row that has it
KeepsLastOf(t, rows) ==
  \A i \in DOMAIN rows :
    (\A j \in (i + 1)..Len(rows) : rows[j].alias # rows[i].alias)
      => \E k \in DOMAIN t : t[k] = rows[i]

\* C5: every golden table that load_golden_map returns or update_golden_from_review
\* writes has pairwise different Alias_Clean values, after any number of learn runs
\* on the same reference; of the rows of a loaded file that share an Alias_Clean,
\* the last one in file order is the one in the table.
C5_UniqueAliasClean ==
  /\ UniqueAlias(ld.result.table)
  /\ UniqueAlias(lr.base)
  /\ UniqueAlias(lr.merged)
  /\ (lr.runs > 0 /\ Exists(lr.before, CUSTOM_GOLDEN))
       => KeepsLastOf(lr.base, FileRows(lr.before[CUSTOM_GOLDEN]))
  /\ (ld.called /\ ld.result.ok) => KeepsLastOf(ld.result.table, FileRows(ld.file))

C5_Witness ==
  /\ lr.runs = 1
  /\ lr.ok
  /\ Len(lr.base) = 1
  /\ Len(FileRows(lr.before[CUSTOM_GOLDEN])) = 2
  /\ lr.base[1].bi = FileRows(lr.before[CUSTOM_GOLDEN])[2].bi
  /\ Len(lr.merged) >= 2
  /\ ld.called

\* C6: whenever a base row and a reviewed row have the same Alias_Clean, the table
\* update_golden_from_review writes keeps the BI Name, Standard_Name and specialty of
\* a reviewed row.
C6_ReviewedRowWins ==
  (lr.runs > 0 /\ lr.ok) =>
    \A i \in DOMAIN lr.rev :
      (\E b \in DOMAIN lr.base : lr.base[b].alias = lr.rev[i].alias)
        => \E m \in DOMAIN lr.merged, j \in DOMAIN lr.rev :
             /\ lr.merged[m].alias = lr.rev[i].alias
             /\ lr.merged[m] = lr.rev[j]

AliasSet(t) == {t[i].alias : i \in DOMAIN t}

\* C7: a second learn run with the same reviewed file on the reference the first run
\* wrote gives a table with as many rows and the same set of Alias_Clean values.
C7_LearnIdempotent ==
  (lr.runs = 2 /\ lr.ok /\ lr.prev.ok /\ lr.reviewed = lr.prev.reviewed) =>
    /\ Len(lr.merged) = Len(lr.prev.merged)
    /\ AliasSet(lr.merged) = AliasSet(lr.prev.merged)

C7_Witness ==
  /\ lr.runs = 2
  /\ lr.ok
  /\ lr.prev.ok
  /\ lr.reviewed = REVIEWED_PATH
  /\ lr.prev.reviewed = REVIEWED_PATH
  /\ Len(lr.rev) = 2
  /\ Len(lr.base) = 2
  /\ Len(lr.merged) = 2
  /\ Len(lr.prev.merged) = 2

\* a workbook whose first sheet has no bi name or no standard name header
LacksGoldenColumns(file) ==
  /\ file.state = "book"
  /\ \/ \A i \in DOMAIN file.sheets[1].hdr : NormalizeCol(file.sheets[1].hdr[i]) \notin BI_NAME_HEADERS
     \/ \A i \in DOMAIN file.sheets[1].hdr :
          NormalizeCol(file.sheets[1].hdr[i]) \notin STANDARD_NAME_HEADERS

\* a workbook whose sheet for the review has no 'bi name' or no 'standard_name' header
LacksReviewedColumns(file) ==
  /\ file.state = "book"
  /\ LET hdr == ReadReviewed(file).hdr
     IN \/ \A i \in DOMAIN hdr : LowerStrip(hdr[i]) # REVIEWED_BI_NAME
        \/ \A i \in DOMAIN hdr : LowerStrip(hdr[i]) # REVIEWED_STANDARD_NAME

C9_ExactBeforeFuzzy ==
  (mt.called /\ mt.name # <<>> /\ mt.table # <<>>) =>
    /\ (\E i \in DOMAIN mt.table : mt.table[i].bi = mt.name)
         => mt.result = [found |-> TRUE, match |-> mt.name, score |-> <<1, 1>>]
    /\ \A i \in DOMAIN mt.table :
         (/\ \A k \in DOMAIN mt.table : mt.table[k].bi # mt.name
          /\ mt.table[i].alias = clean_name(mt.name, TRUE))
           => mt.result = [found |-> TRUE, match |-> mt.table[i].bi, score |-> <<1, 1>>]

C9_Witness ==
  /\ mt.called
  /\ ~ADVANCED_MODE
  /\ mt.threshold = <<1, 1>>
  /\ mt.name = N_ALY
  /\ Len(mt.table) = 2
  /\ mt.result = [found |-> TRUE, match |-> N_DR_ALI, score |-> <<1, 1>>]

\* the call got to the fuzzy scan: the libraries are there and no exact attempt hit
FuzzyStage ==
  /\ mt.called
  /\ ADVANCED_MODE
  /\ mt.name # <<>>
  /\ mt.table # <<>>
  /\ \A i \in DOMAIN mt.table :
       mt.table[i].bi # mt.name /\ mt.table[i].alias # clean_name(mt.name, TRUE)

\* the similarity score of row i for the name of the call
Similarity(i) == RowScore(mt.name, mt.table[i])

\* the best row scores exactly the threshold
BestAtThreshold ==
  /\ \E i \in DOMAIN mt.table : FracEQ(Similarity(i), mt.threshold)
  /\ \A i \in DOMAIN mt.table : FracGE(mt.threshold, Similarity(i))

\* the match returned is a row that scores no less than the threshold
ReturnsNoneBelow ==
  mt.result.found =>
    \E i \in DOMAIN mt.table :
      /\ mt.table[i].bi = mt.result.match
      /\ FracGE(Similarity(i), mt.threshold)

\* C10 as claimed: for every threshold in [0,1] a row that scores exactly the
\* threshold is accepted when no row scores higher, and no row below it is returned.
C10_InclusiveFloor ==
  FuzzyStage =>
    /\ BestAtThreshold => mt.result.found /\ FracEQ(mt.result.score, mt.threshold)
    /\ ReturnsNoneBelow

\* C10 as amended: for every threshold in (0,1] a row that scores exactly the
\* threshold is accepted when no row scores higher; for every threshold in [0,1] no
\* row below it is returned.
C10_InclusiveFloorAboveZero ==
  FuzzyStage =>
    /\ (BestAtThreshold /\ FracGT(mt.threshold, <<0, 1>>))
         => mt.result.found /\ FracEQ(mt.result.score, mt.threshold)
    /\ ReturnsNoneBelow

C10_Witness ==
  /\ FuzzyStage
  /\ mt.name = N_OMER
  /\ mt.threshold = <<3, 4>>
  /\ BestAtThreshold
  /\ mt.result = [found |-> TRUE, match |-> N_OMAR, score |-> <<6, 8>>]


(***************************************************************************)
(* The output of a process run                                             *)
(***************************************************************************)
\* the Standard_Name of the golden row that a person matched
GoldenStandardNames(golden, bi) ==
  {golden[i].std : i \in {j \in DOMAIN golden : golden[j].bi = bi}}

\* the Standard_Name the claim gives a person row: that of its golden entry when
\* it has a golden match, else its cleaned or extracted name
PopulatedStandardName(p, golden) ==
  /\ p.standard_name # <<>>
  /\ IF p.golden_match # <<>>
     THEN p.standard_name \in GoldenStandardNames(golden, p.golden_match)
     ELSE p.standard_name \in {p.cleaned, p.extracted}

\* C11: in the output of every process run every person row has a non-empty
\* Standard_Name: that of the golden entry when the row has a golden match, else
\* the cleaned or extracted name.
C11_StandardNameAlwaysPopulated ==
  pc = "done" =>
    \A i \in DOMAIN mem.persons : PopulatedStandardName(mem.persons[i], mem.golden)

(***************************************************************************)
(* smart_merge_persons                                                     *)
(***************************************************************************)
\* smart_merge_persons ran with the fuzzy libraries
Merged == mg.called /\ ADVANCED_MODE

\* the token-set similarity of the rows i and j of the table r
PairSimilarity(r, i, j) == token_set_ratio(JoinSp(r[i].toks), JoinSp(r[j].toks))

\* rows i and j qualify for the auto-merge
QualifiesForMerge(r, i, j) ==
  /\ Compared(r, i, j)
  /\ FracGE(PairSimilarity(r, i, j), AUTO_MERGE_THRESHOLD)

\* rows i and j are an unsure pair
QualifiesAsUnsure(r, i, j, unsure_threshold) ==
  /\ Compared(r, i, j)
  /\ FracGE(PairSimilarity(r, i, j), unsure_threshold)
  /\ ~FracGE(PairSimilarity(r, i, j), AUTO_MERGE_THRESHOLD)

\* both rows of every qualifying pair of r carry the same name after the merge
MergedPairsAgree(r, out) ==
  \A i, j \in DOMAIN r :
    (i < j /\ QualifiesForMerge(r, i, j)) => out[i].standard_name = out[j].standard_name

\* C12: after merge any two records of one block with the same family token,
\* tokens and a token-set similarity of 0.90 or more carry the same Standard_Name,
\* for every table, also when a name takes part in several qualifying pairs.
\* (Which name they share, the second half of the claim, is left out: the first
\* half is what the merge does not keep.)
C12_QualifyingPairsShareName ==
  Merged => MergedPairsAgree(ClusterRows(mg.df), mg.out)

\* neither row of an unsure pair gets the name of the other, and both are flagged
UnsurePairsFlagged(r, out, unsure_threshold) ==
  \A i, j \in DOMAIN r :
    (i < j /\ QualifiesAsUnsure(r, i, j, unsure_threshold)) =>
      /\ out[i].standard_name # r[j].name
      /\ out[j].standard_name # r[i].name
      /\ out[i].not_sure = NOT_SURE
      /\ out[j].not_sure = NOT_SURE

\* C13: every pair of one block with the same family token whose similarity lies
\* in [unsure_threshold, 0.90) is not merged with each other and both its records
\* have Not_Sure = "Not Sure", whatever other pairs they take part in.
C13_UnsurePairsFlagged ==
  Merged => UnsurePairsFlagged(ClusterRows(mg.df), mg.out, mg.unsure_threshold)


(***************************************************************************)
(* Claims on the classifier and the normalizer (SpecText)                  *)
(***************************************************************************)
\* the lowercased name
LowercasedName == Lower(s(tx.raw))

\* w stands in n at position i as a whole word
WholeWordAt(n, i, w) ==
  /\ MatchesAt(n, i, w)
  /\ i = 1 \/ ~IsWordChar(n[i-1])
  /\ i + Len(w) > Len(n) \/ ~IsWordChar(n[i + Len(w)])

HoldsServiceWord(n) ==
  \E w \in SERVICE_WORDS : \E i \in 1..Len(n) : WholeWordAt(n, i, w)

EndsWithFacilityWord(n) ==
  \E w \in FACILITY_SUFFIXES : Len(w) <= Len(n) /\ WholeWordAt(n, Len(n) - Len(w) + 1, w)

\* C14: is_facility(name) is true exactly when the lowercased name holds a
\* service word as a whole word or ends with a facility-type word, false for
\* every other name, the empty one too; where the third rule (a short name
\* that starts with a doctor's title) applies, the answer is the default one.
C14_FacilityIffServiceWordOrSuffix ==
  tx.called =>
    /\ tx.facility <=> (HoldsServiceWord(LowercasedName) \/ EndsWithFacilityWord(LowercasedName))
    /\ ShortDoctor(LowercasedName) => ~tx.facility

\* the third rule applies to "Dr Aly", which is classified as a person
C14_ShortDoctorClassified ==
  /\ tx.called
  /\ tx.raw = W_DR \o <<" ">> \o W_ALY
  /\ ShortDoctor(LowercasedName)
  /\ ~tx.facility

\* C15: normalization is idempotent for person names: for every raw name x,
\* normalize_tokens(clean_name(x)) equals normalize_tokens(x).
C15_NormalizationIdempotent ==
  tx.again => tx.cleaned_tokens = tx.person_tokens

NoAdjacentEqual(tokens) ==
  \A i \in 1..(Len(tokens) - 1) : tokens[i] # tokens[i+1]

\* C16: for every raw string the tokens that normalize_tokens returns with
\* is_person=False hold no two adjacent equal tokens.
C16_NoAdjacentFacilityDuplicates ==
  tx.called => NoAdjacentEqual(tx.facility_tokens)

(***************************************************************************)
(* Claims on the process run (Spec)                                        *)
(***************************************************************************)
HasSheet(book, name) ==
  book.state = "book" /\ \E k \in DOMAIN book.sheets : book.sheets[k].name = name

SheetNamed(book, name) ==
  book.sheets[CHOOSE k \in DOMAIN book.sheets : book.sheets[k].name = name]

\* the cells of the column col of a sheet
ColumnOf(sheet, col) ==
  [i \in DOMAIN sheet.rows |->
     sheet.rows[i][CHOOSE j \in DOMAIN sheet.hdr : sheet.hdr[j] = col]]

\* the column col of the sheet name of the output workbook, <<>> without the sheet
OutputColumn(name, col) ==
  IF HasSheet(fs[OUTPUT_PATH], name) THEN ColumnOf(SheetNamed(fs[OUTPUT_PATH], name), col)
  ELSE <<>>

S_MOHAMED_ALI == <<"M","o","h","a","m","e","d"," ","A","l","i">>

S_MOHAMED_ALY == <<"M","o","h","a","m","e","d"," ","A","l","y">>

S_ENT_CLINIC == <<"E","n","t"," ","C","l","i","n","i","c">>

S_ENT_CLINIC_DOWNTOWN ==
  <<"E","n","t"," ","C","l","i","n","i","c"," ","D","o","w","n","t","o","w","n">>

\* a finished run on the scenario input with an empty golden reference
ScenarioDone ==
  /\ pc = "done"
  /\ pre[INPUT_PATH] = ScenarioFile
  /\ mem.golden = <<>>

\* C17 as stated: the scenario rows with an empty golden reference give two
\* Doctors rows named "Mohamed Ali" and "Mohamed Aly" (or both one of the two
\* names after a merge) and one Facilities row named "Ent Clinic" with
\* Name_Changed = True.
C17_ScenarioAsStated ==
  ScenarioDone =>
    /\ \/ OutputColumn("Doctors", COL_STANDARD_NAME) = <<S_MOHAMED_ALI, S_MOHAMED_ALY>>
       \/ \E n \in {S_MOHAMED_ALI, S_MOHAMED_ALY} :
            OutputColumn("Doctors", COL_STANDARD_NAME) = <<n, n>>
    /\ OutputColumn("Facilities", COL_STANDARD_NAME) = <<S_ENT_CLINIC>>
    /\ OutputColumn("Facilities", COL_NAME_CHANGED) = <<TRUE_TEXT>>

\* C17: the scenario rows with an empty golden reference give two Doctors rows,
\* both named "Mohamed Ali" (the normalizer rewrites "Aly", no merge runs), and one
\* Facilities row named "Ent Clinic Downtown" with Name_Changed = True.
C17_ScenarioOutput ==
  ScenarioDone =>
    /\ OutputColumn("Doctors", COL_STANDARD_NAME) = <<S_MOHAMED_ALI, S_MOHAMED_ALI>>
    /\ ~mem.clustered
    /\ OutputColumn("Facilities", COL_STANDARD_NAME) = <<S_ENT_CLINIC_DOWNTOWN>>
    /\ OutputColumn("Facilities", COL_NAME_CHANGED) = <<TRUE_TEXT>>

\* the scenario run has finished and written both sheets
C17_ScenarioFinished ==
  /\ ScenarioDone
  /\ HasSheet(fs[OUTPUT_PATH], "Doctors")
  /\ HasSheet(fs[OUTPUT_PATH], "Facilities")

\* C18: every successful process run writes one output workbook that holds a
\* Doctors sheet and a Facilities sheet, whatever the mix of persons and
\* facilities in the input.
C18_BothSheetsWritten ==
  pc = "done" =>
    /\ HasSheet(fs[OUTPUT_PATH], "Doctors")
    /\ HasSheet(fs[OUTPUT_PATH], "Facilities")

\* the person went through the fuzzy scan: the golden table holds neither its
\* BI Name nor its extracted name nor its cleaned name as an alias
FuzzyDecides(p, golden) ==
  /\ ADVANCED_MODE
  /\ golden # <<>>
  /\ p.extracted # <<>>
  /\ \A i \in DOMAIN golden :
       /\ golden[i].bi # p.bi
       /\ golden[i].bi # p.extracted
       /\ golden[i].alias # p.cleaned

\* the best score of a golden row for the name
BestGoldenScore(extracted_name, golden) ==
  FuzzyScan(extracted_name, golden, <<0, 1>>, 1, NoMatch).score

\* C19: the threshold given to process is the one of the golden match: a fuzzy
\* golden candidate is accepted as the match of a person exactly when its score
\* is at least the threshold of the caller.
C19_CallerThresholdDecidesMatch ==
  pc \in {"cluster", "process_facilities"} =>
    \A i \in DOMAIN mem.persons :
      FuzzyDecides(mem.persons[i], mem.golden) =>
        (mem.persons[i].golden_match # <<>>
           <=> FracGE(BestGoldenScore(mem.persons[i].extracted, mem.golden), req.threshold))

(***************************************************************************)
(* Claims on the pipeline (SpecPipeline)                                   *)
(***************************************************************************)
\* run_processing has returned from a job whose request names an existing
\* golden file
JobWithGoldenDone ==
  /\ pl.returned
  /\ pl.ok
  /\ pl.golden_path # NoPath
  /\ Exists(pre, pl.golden_path)

\* C20: run_processing(req) with req.golden_path naming an existing file performs
\* the job against exactly that golden reference, not an auto-discovered one,
\* whichever path (the facade or the CLI) ends up executing the job.
C20_JobUsesGivenGolden ==
  JobWithGoldenDone => (ld.called /\ ld.path = pl.golden_path /\ ld.result.src = pl.golden_path)

(***************************************************************************)
(* Claims on the clustering stage of the process run (Spec)                *)
(***************************************************************************)
\* the person carries the Standard_Name of the golden entry it matched
KeepsGoldenName(p, golden) ==
  p.golden_match # <<>> => p.standard_name \in GoldenStandardNames(golden, p.golden_match)

\* C21: clustering touches the unmatched persons only: a person row with a
\* golden match keeps the Standard_Name of its golden entry in the final output.
C21_ClusterKeepsGoldenNames ==
  pc = "done" => \A i \in DOMAIN mem.persons : KeepsGoldenName(mem.persons[i], mem.golden)

\* the stages of a run after the CLUSTER stage
AfterCluster ==
  pc \in {"process_facilities", "export_new_aliases", "open_writer", "save_writer",
          "report_stats", "done"}

\* C22: the CLUSTER stage is executed exactly in the runs where a person has no
\* golden match and the fuzzy libraries are available, so also when the golden
\* reference is empty and more than one person is present.
C22_ClusterRunsWhenUnmatched ==
  AfterCluster =>
    (mem.clustered <=>
       (ADVANCED_MODE /\ \E i \in DOMAIN mem.persons : mem.persons[i].golden_match = <<>>))

(***************************************************************************)
(* Claims on the matcher (SpecMatch)                                       *)
(***************************************************************************)
\* the first row of the highest score among the rows of Q
FirstHighest(Q) ==
  CHOOSE i \in Q :
    /\ \A j \in Q : FracGE(Similarity(i), Similarity(j))
    /\ \A j \in Q : FracEQ(Similarity(j), Similarity(i)) => i <= j

\* the result of the call is the first row of the highest score among the rows
\* of Q, and (null, 0.0) when Q is empty
ReturnsFirstHighest(Q) ==
  IF Q = {} THEN mt.result = NoMatch
  ELSE mt.result = Matched(mt.table[FirstHighest(Q)].bi, Similarity(FirstHighest(Q)))

\* C23 as stated: without an exact or clean-alias hit and with the fuzzy
\* libraries, find_best_match returns the row of the highest score among the rows
\* that score at least the threshold, the first one of equal scores, and
\* (null, 0.0) when no row qualifies.
C23_FirstHighestAtThreshold ==
  FuzzyStage =>
    ReturnsFirstHighest({i \in DOMAIN mt.table : FracGE(Similarity(i), mt.threshold)})

\* C23 as amended: the rows that qualify score at least the threshold and more
\* than 0.
C23_FirstHighestAboveZero ==
  FuzzyStage =>
    ReturnsFirstHighest({i \in DOMAIN mt.table :
                           /\ FracGE(Similarity(i), mt.threshold)
                           /\ FracGT(Similarity(i), <<0, 1>>)})

\* two rows score 0.75 for "Omer" and the first of them is returned
C23_TieGoesToFirst ==
  /\ FuzzyStage
  /\ mt.name = N_OMER
  /\ Len(mt.table) = 2
  /\ mt.table[1].bi = N_OMIR
  /\ mt.table[2].bi = N_OMAR
  /\ FracEQ(Similarity(1), Similarity(2))
  /\ FracGE(Similarity(1), mt.threshold)
  /\ mt.result = Matched(N_OMIR, Similarity(1))

(***************************************************************************)
(* Claims on the merge (SpecMerge)                                         *)
(***************************************************************************)
\* the pairs of rows that qualify for the auto-merge, by their pre-merge names
MergePairs(r) ==
  {pr \in (DOMAIN r) \X (DOMAIN r) : pr[1] < pr[2] /\ QualifiesForMerge(r, pr[1], pr[2])}

\* the row of the pair whose name is given up
OtherOf(r, pr) == IF Chosen(r, pr[1], pr[2]) = pr[1] THEN pr[2] ELSE pr[1]

\* the merge pairs that give up the name
PairsGivingUp(r, name) == {pr \in MergePairs(r) : r[OtherOf(r, pr)].name = name}

\* the last pair of S in the order of the loops
LastPair(S) ==
  CHOOSE p \in S : \A q \in S : q[1] < p[1] \/ (q[1] = p[1] /\ q[2] <= p[2])

\* the one mapping entry of the name, the name itself without an entry
SingleEntry(r, name, S) ==
  IF S = {} THEN name ELSE r[Chosen(r, LastPair(S)[1], LastPair(S)[2])].name

\* the pre-merge names of the unsure pairs
UnsureNames(r, unsure_threshold) ==
  {r[i].name : i \in {k \in DOMAIN r :
                        \E l \in DOMAIN r :
                          \/ k < l /\ QualifiesAsUnsure(r, k, l, unsure_threshold)
                          \/ l < k /\ QualifiesAsUnsure(r, l, k, unsure_threshold)}}

\* every row carries its pre-merge name or the one entry of that name, and is
\* flagged by the pre-merge names of the unsure pairs
BatchSubstitution(r, out, unsure_threshold) ==
  \A i \in DOMAIN r :
    /\ out[i].standard_name = SingleEntry(r, r[i].name, PairsGivingUp(r, r[i].name))
    /\ out[i].not_sure = NOT_SURE <=> out[i].standard_name \in UnsureNames(r, unsure_threshold)

\* C24: merge applies its mapping as one batch substitution after all pairwise
\* comparisons: every merge and unsure decision is computed from pre-merge names,
\* and the final Standard_Name of a record is its pre-merge name or the single
\* mapping entry of that name, never the result of following two entries.
C24_SingleBatchSubstitution ==
  Merged => BatchSubstitution(ClusterRows(mg.df), mg.out, mg.unsure_threshold)

\* 'Ali Samu Omar' is mapped to 'Ali Sami Omar', a name that has an entry of its own
C24_EntryNotFollowed ==
  /\ Merged
  /\ Len(mg.df) = 3
  /\ mg.df[1].standard_name = M_SAMY
  /\ mg.df[2].standard_name = M_SAMI
  /\ mg.df[3].standard_name = M_SAMU
  /\ mg.out[2].standard_name = M_SAMY
  /\ mg.out[3].standard_name = M_SAMI

(***************************************************************************)
(* Claims on the specialty normalizer (SpecSpecialty)                      *)
(***************************************************************************)
\* the canonical specialty names as normalize_specialty returns them
CanonicalNames == {Title(SPECIALTY_CANONICAL[e][1]) : e \in DOMAIN SPECIALTY_CANONICAL}

\* the input is missing, empty or blank
EmptySpecialtyInput == Strip(s(tx.raw)) = <<>>

\* a canonical name or the title-cased cleaned text
CanonicalOrCleaned == tx.specialty \in CanonicalNames \/ tx.specialty = Title(tx.cleaned)

\* C25 as stated: normalize_specialty returns "Unknown" only when its input is
\* empty or NaN; every non-empty input yields a canonical specialty name or the
\* title-cased cleaned text of the input.
C25_UnknownOnlyForEmptyInput ==
  tx.called =>
    /\ tx.specialty = UNKNOWN => EmptySpecialtyInput
    /\ ~EmptySpecialtyInput => CanonicalOrCleaned

\* C25 as amended: normalize_specialty returns "Unknown" when the cleaned text of
\* its input is empty (the input is empty, NaN, or made of stopwords, separators
\* and punctuation only); every input with a cleaned text that is not empty yields
\* a canonical specialty name or the title-cased cleaned text.
C25_UnknownForEmptyCleanedText ==
  tx.called =>
    /\ tx.cleaned = <<>> => tx.specialty = UNKNOWN
    /\ tx.cleaned # <<>> => CanonicalOrCleaned

\* the input "Clinic" is a stopword and nothing else, and comes back as "Unknown"
C25_StopwordIsUnknown ==
  /\ tx.called
  /\ tx.raw = SW_CLINIC
  /\ tx.cleaned = <<>>
  /\ tx.specialty = UNKNOWN

(***************************************************************************)
(* Claims on the records of the process run (Spec)                         *)
(***************************************************************************)
\* the BI Name cells of the input file of the run, as they stand in the file
InputNames == ColumnOf(pre[INPUT_PATH].sheets[1], COL_BI_NAME)

IsFacilityName(name) == is_facility(name)

IsPersonName(name) == ~is_facility(name)

\* C26: a process run neither drops, duplicates nor alters input records: the
\* Doctors sheet holds the BI Names of the input rows classified as persons and
\* the Facilities sheet those classified as facilities, each row once and in the
\* order of the input, also after clustering.
C26_RowsPreserved ==
  pc = "done" =>
    /\ OutputColumn("Doctors", COL_BI_NAME) = SelectSeq(InputNames, IsPersonName)
    /\ OutputColumn("Facilities", COL_BI_NAME) = SelectSeq(InputNames, IsFacilityName)

\* every row of table t is a row of table u
RowsAmong(t, u) == \A i \in DOMAIN t : \E j \in DOMAIN u : t[i] = u[j]

\* a learn run that succeeded although its base path named no file
LearnedWithoutBase ==
  lr.runs > 0 /\ lr.ok /\ ~Exists(lr.before, CUSTOM_GOLDEN)

\* C27: update_from_review with a base path that does not exist starts from an
\* empty base: the table it writes holds only rows of the reviewed file, and
\* no entry of another reference file on disk enters the result
C27_MissingBaseStartsEmpty ==
  LearnedWithoutBase => lr.base = <<>> /\ RowsAmong(lr.merged, lr.rev)

\* the new-alias counter of _update_glass_stats: the number of rows read back
\* from the workbook at path (0 when there is no file or it cannot be read)
NewAliasCountReadBack(files, path) ==
  IF files[path].state = "book" THEN Len(files[path].sheets[1].rows) ELSE 0

\* the new aliases of the run: its persons whose BI Name is no golden BI Name
NewAliasesOfRun == new_aliases_of(mem.persons, mem.golden)

\* C29: after every successful process run the workbook at new_aliases_out
\* describes that run: the new-alias count read back from the file is the
\* count of this run, so a run without any new alias leaves no rows of an
\* earlier run at the path
C29_NewAliasesDescribeRun ==
  pc = "done" =>
    NewAliasCountReadBack(fs, req.new_aliases_out) = Len(NewAliasesOfRun)

\* the second process run of the review loop has finished
SecondRunDone == pc = "done" /\ lr.runs > 0

\* C28: the review loop converges: after process exported its new aliases and
\* learn took them into the golden reference, a second process run on the same
\* input exports no person as a new alias
C28_ReviewLoopConverges ==
  SecondRunDone => NewAliasesOfRun = <<>>

\* C30: branch codes are noise on person names: a person name without any
\* service word, followed by a configured branch code, is classified as a
\* person and normalizes to the tokens of the name alone
C30_BranchCodeIsNoise ==
  tx.called =>
    /\ ~tx.facility
    /\ tx.person_tokens = tx.plain_tokens
====
